---- MODULE Spec2Model ----
(***************************************************************************)
(* A model of the cross_regime_alpha daily data pipeline: the partitioned  *)
(* parquet caches on disk and the stages that read and write them          *)
(* (ingestion, quality, indicators, regime filter, trend filter).          *)
(*                                                                         *)
(* Representation.                                                         *)
(*   - A nullable cell is a sequence: <<>> is null (NaN, NaT, None).       *)
(*   - A float cell is an exact rational <<n, d>>, d > 0, in lowest terms. *)
(*   - A timestamp cell is <<t>>, a boolean cell is <<TRUE>> or <<FALSE>>. *)
(*   - A symbol is a sequence of one-character strings.                    *)
(*   - A date is a day number; YearMonth maps it to its partition.         *)
(*   - A data frame is a sequence of rows; a row is a record over Columns, *)
(*     a column a frame does not carry being null in every row (what       *)
(*     pandas.concat makes of it).                                         *)
(*   - A part file is named by the clock second of the write that made it. *)
(***************************************************************************)
EXTENDS Integers, Sequences, FiniteSets, TLC

VARIABLES
    fs,        \* the cache trees: path <<cache, symbol, yearmonth, name>> -> frame
    reports,   \* the report files written: a set of <<run id, file name>>
    clock,     \* the wall clock, in seconds
    runs,      \* the number of stage calls made so far
    client,    \* the broker client: is it connected
    res,       \* the outcome of the last stage call
    prev,      \* the outcome of the stage call before it
    procs      \* the stage runs in progress side by side: id -> its position

vars == <<fs, reports, clock, runs, client, res, prev, procs>>

----------------------------------------------------------------------------
\* Body applied to the value of v, v being evaluated once.
Bind(v, Body(_)) == CHOOSE r \in {Body(w) : w \in {v}} : TRUE

----------------------------------------------------------------------------
\* Nullable cells and exact rationals.

Null == <<>>

IsNull(x) == x = <<>>

NotNull(x) == x # <<>>

Abs(i) == IF i < 0 THEN 0 - i ELSE i

RECURSIVE Gcd(_, _)
Gcd(a, b) == IF b = 0 THEN a ELSE Gcd(b, a % b)

\* The rational n/d (d # 0) in lowest terms with a positive denominator.
Rat(n, d) ==
    Bind(<<n, d, Gcd(Abs(n), Abs(d))>>, LAMBDA a :
        IF a[2] < 0 THEN <<(0 - a[1]) \div a[3], (0 - a[2]) \div a[3]>>
        ELSE <<a[1] \div a[3], a[2] \div a[3]>>)

F(i) == <<i, 1>>

RAdd(x, y) == Rat(x[1] * y[2] + y[1] * x[2], x[2] * y[2])

RSub(x, y) == Rat(x[1] * y[2] - y[1] * x[2], x[2] * y[2])

RMul(x, y) == Rat(x[1] * y[1], x[2] * y[2])

RDiv(x, y) == Rat(x[1] * y[2], x[2] * y[1])

RLt(x, y) == x[1] * y[2] < y[1] * x[2]

RLe(x, y) == x[1] * y[2] <= y[1] * x[2]

RAbs(x) == <<Abs(x[1]), x[2]>>

RMax(x, y) == IF RLt(x, y) THEN y ELSE x

RMin(x, y) == IF RLt(y, x) THEN y ELSE x

\* pandas comparison of two float cells: any comparison with NaN is False.
Gt(x, y) == NotNull(x) /\ NotNull(y) /\ RLt(y, x)

Ge(x, y) == NotNull(x) /\ NotNull(y) /\ RLe(y, x)

----------------------------------------------------------------------------
\* Sequences.

RECURSIVE SeqSum(_)
SeqSum(s) == IF s = <<>> THEN 0 ELSE Head(s) + SeqSum(Tail(s))

RECURSIVE FlattenSeq(_)
FlattenSeq(ss) ==
    Bind(ss, LAMBDA s : IF s = <<>> THEN <<>> ELSE Head(s) \o FlattenSeq(Tail(s)))

Range(s) == {s[i] : i \in DOMAIN s}

\* The elements of a finite set of integers in increasing order.
RECURSIVE SortedInts(_)
SortedInts(S) ==
    IF S = {} THEN <<>>
    ELSE LET m == CHOOSE x \in S : \A y \in S : x <= y
         IN  <<m>> \o SortedInts(S \ {m})

\* All sequences over S of length at most n.
SeqsUpTo(S, n) == UNION {[1..k -> S] : k \in 0..n}

----------------------------------------------------------------------------
\* Symbols: sequences of characters, with Python's str.strip and str.upper.

CharCode(c) ==
    CASE c = " " -> 32
      [] c = "A" -> 65
      [] c = "F" -> 70
      [] c = "L" -> 76
      [] c = "M" -> 77
      [] c = "P" -> 80
      [] c = "S" -> 83
      [] c = "T" -> 84
      [] c = "Y" -> 89
      [] c = "a" -> 97
      [] c = "l" -> 108
      [] c = "m" -> 109
      [] c = "p" -> 112
      [] c = "s" -> 115
      [] c = "y" -> 121

UpperChar(c) ==
    CASE c = "a" -> "A"
      [] c = "l" -> "L"
      [] c = "m" -> "M"
      [] c = "p" -> "P"
      [] c = "s" -> "S"
      [] c = "y" -> "Y"
      [] OTHER -> c

RECURSIVE LStrip(_)
LStrip(s) == IF s # <<>> /\ Head(s) = " " THEN LStrip(Tail(s)) ELSE s

RECURSIVE RStrip(_)
RStrip(s) ==
    IF s # <<>> /\ s[Len(s)] = " " THEN RStrip(SubSeq(s, 1, Len(s) - 1)) ELSE s

Strip(s) == RStrip(LStrip(s))

Upper(s) == [i \in DOMAIN s |-> UpperChar(s[i])]

normalize_symbol(symbol) == Upper(Strip(symbol))

\* Python's order on strings: lexicographic by code point.
RECURSIVE StrLt(_, _)
StrLt(a, b) ==
    IF b = <<>> THEN FALSE
    ELSE IF a = <<>> THEN TRUE
    ELSE IF Head(a) # Head(b) THEN CharCode(Head(a)) < CharCode(Head(b))
    ELSE StrLt(Tail(a), Tail(b))

RECURSIVE SortedStrs(_)
SortedStrs(S) ==
    IF S = {} THEN <<>>
    ELSE LET m == CHOOSE x \in S : \A y \in S : x = y \/ StrLt(x, y)
         IN  <<m>> \o SortedStrs(S \ {m})

\* sorted({_normalize_symbol(s) for s in symbols if s and s.strip()})
requested_symbols_of(symbols) ==
    SortedStrs({normalize_symbol(symbols[i]) :
                   i \in {j \in DOMAIN symbols : Strip(symbols[j]) # <<>>}})

SPY == <<"S", "P", "Y">>

AAPL == <<"A", "A", "P", "L">>

----------------------------------------------------------------------------
\* Rows and frames.

Columns ==
    {"symbol", "date", "open", "high", "low", "close", "volume", "adj_close",
     "adjustment_factor", "adjustment_method", "pulled_at_utc",
     "daily_return", "is_outlier_jump", "is_missing_bar",
     "adj_high", "adj_low", "sma200", "sma50", "ema20", "rsi14", "atr14",
     "rolling_high_20", "volume_sma50", "indicator_ready",
     "regime_on", "regime_known", "benchmark_adj_close", "benchmark_sma200",
     "regime_benchmark_symbol", "trend_known", "trend_eligible"}

\* The row that carries the cells of f and null in every other column.
Row(f) == [c \in Columns |-> IF c \in DOMAIN f THEN f[c] ELSE Null]

\* The row r with the cells of f assigned.
With(r, f) ==
    Bind(<<r, f>>, LAMBDA a :
        [c \in Columns |-> IF c \in DOMAIN a[2] THEN a[2][c] ELSE a[1][c]])

\* The number of day numbers that fall in one (year, month) partition.
DaysPerMonth == 2

\* dated["date"].dt.year, dated["date"].dt.month of a day number.
YearMonth(date) == (date - 1) \div DaysPerMonth

\* Series comparison: x sorts before y in column c, NaN after every value.
CellLt(c, x, y) ==
    CASE c = "symbol" -> StrLt(x, y)
      [] c = "date" -> x < y
      [] c = "pulled_at_utc" ->
            IF IsNull(x) THEN FALSE
            ELSE IF IsNull(y) THEN TRUE
            ELSE x[1] < y[1]

\* Row a sorts strictly before row b on the columns by, in that order.
RECURSIVE RowLt(_, _, _)
RowLt(a, b, by) ==
    IF by = <<>> THEN FALSE
    ELSE LET c == Head(by)
         IN  IF CellLt(c, a[c], b[c]) THEN TRUE
             ELSE IF CellLt(c, b[c], a[c]) THEN FALSE
             ELSE RowLt(a, b, Tail(by))

\* Insert row r after every row of the sorted frame that does not sort after it.
RECURSIVE InsertStable(_, _, _)
InsertStable(sorted, r, by) ==
    IF sorted = <<>> THEN <<r>>
    ELSE IF RowLt(r, sorted[Len(sorted)], by)
         THEN InsertStable(SubSeq(sorted, 1, Len(sorted) - 1), r, by)
                  \o <<sorted[Len(sorted)]>>
         ELSE sorted \o <<r>>

\* DataFrame.sort_values(by): a stable sort, nulls last.
RECURSIVE sort_values(_, _)
sort_values(frame, by) ==
    Bind(frame, LAMBDA f :
        IF f = <<>> THEN <<>>
        ELSE Bind(sort_values(SubSeq(f, 1, Len(f) - 1), by),
                  LAMBDA sorted : InsertStable(sorted, f[Len(f)], by)))

SameKey(a, b, subset) == \A i \in DOMAIN subset : a[subset[i]] = b[subset[i]]

\* DataFrame.duplicated(subset, keep="last"): the mask of the rows that have a
\* later row with the same key.
duplicated_keep_last(frame, subset) ==
    Bind(frame, LAMBDA f :
        [i \in DOMAIN f |-> \E j \in DOMAIN f : j > i /\ SameKey(f[i], f[j], subset)])

\* The rows of the frame whose mask entry is true, in order.
RECURSIVE Masked(_, _)
Masked(frame, mask) ==
    Bind(<<frame, mask>>, LAMBDA a :
        IF a[1] = <<>> THEN <<>>
        ELSE LET n == Len(a[1])
                 rest == Masked(SubSeq(a[1], 1, n - 1), SubSeq(a[2], 1, n - 1))
             IN  IF a[2][n] THEN rest \o <<a[1][n]>> ELSE rest)

\* DataFrame.drop_duplicates(subset, keep="last")
drop_duplicates_keep_last(frame, subset) ==
    Bind(frame, LAMBDA f :
        Bind(duplicated_keep_last(f, subset), LAMBDA dup :
            Masked(f, [i \in DOMAIN f |-> ~dup[i]])))

----------------------------------------------------------------------------
\* The partitioned cache store.

RAW == "data/cache/ibkr/raw/daily"

NORMALIZED == "data/cache/ibkr/normalized/daily"

CLEANED == "data/cache/ibkr/cleaned/daily"

FEATURES == "data/cache/features/daily"

SIGNALS == "data/cache/signals/daily"

\* sorted(symbol_dir.glob("**/*.parquet")): the part files of one symbol,
\* ordered by partition and then by file name.
SymbolFiles(files, cache, symbol) ==
    LET mine == {p \in DOMAIN files : p[1] = cache /\ p[2] = symbol}
        Before(p, q) == p[3] < q[3] \/ (p[3] = q[3] /\ p[4] < q[4])
        RECURSIVE Ordered(_)
        Ordered(S) ==
            IF S = {} THEN <<>>
            ELSE LET m == CHOOSE p \in S : \A q \in S : p = q \/ Before(p, q)
                 IN  <<m>> \o Ordered(S \ {m})
    IN  Ordered(mine)

\* The read of every stage: the frames of the part files of the symbols, in
\* the order of the symbol list, concatenated without deduplication.
read_frames(files, cache, symbols) ==
    FlattenSeq([i \in DOMAIN symbols |->
        LET paths == SymbolFiles(files, cache, symbols[i])
        IN  FlattenSeq([k \in DOMAIN paths |-> files[paths[k]]])])

\* The (symbol, yearmonth) groups of a frame.
PartitionsOf(frame) ==
    {<<frame[i].symbol, YearMonth(frame[i].date)>> : i \in DOMAIN frame}

Chunk(frame, part) ==
    LET InPart(r) == r.symbol = part[1] /\ YearMonth(r.date) = part[2]
    IN  SelectSeq(frame, InPart)

\* The part files of the partitions of the frame, as they exist in files.
ExistingIn(files, cache, parts) ==
    {p \in DOMAIN files : p[1] = cache /\ <<p[2], p[3]>> \in parts}

\* The paths a write of the frame at second now creates.
NewPaths(frame, cache, now) ==
    {<<cache, part[1], part[2], now>> : part \in PartitionsOf(frame)}

\* A write that never unlinks, whatever the write mode.
write_partitioned_parquet_append(files, frame, cache, write_mode, now) ==
    Bind(frame, LAMBDA f :
        LET made == NewPaths(f, cache, now)
        IN  [p \in DOMAIN files \cup made |->
                IF p \in made THEN Chunk(f, <<p[2], p[3]>>) ELSE files[p]])

\* _write_partitioned_parquet of the derived stages: per (symbol, year,
\* month) group of the frame, unlink every part file of the target directory
\* when write_mode is upsert_latest, then write part-<timestamp>.parquet.
write_partitioned_parquet(files, frame, cache, write_mode, now) ==
    Bind(frame, LAMBDA f :
        LET gone == IF write_mode = "upsert_latest"
                    THEN ExistingIn(files, cache, PartitionsOf(f)) ELSE {}
            made == NewPaths(f, cache, now)
        IN  [p \in (DOMAIN files \ gone) \cup made |->
                IF p \in made THEN Chunk(f, <<p[2], p[3]>>) ELSE files[p]])

\* The paths of a cache tree.
CachePaths(files, cache) == {p \in DOMAIN files : p[1] = cache}

\* The number of rows of the frame whose boolean column c is true.
CountTrue(frame, c) == Cardinality({i \in DOMAIN frame : frame[i][c] = <<TRUE>>})

InSymbols(symbol, symbols) == \E i \in DOMAIN symbols : symbols[i] = symbol

\* frame.loc[frame["symbol"].isin(symbols)]
RowsOfSymbols(frame, symbols) ==
    LET Wanted(r) == InSymbols(r.symbol, symbols)
    IN  SelectSeq(frame, Wanted)

\* A deduplication that keeps the last row of every (symbol, date) in input
\* order, without looking at pulled_at_utc.
dedupe_last_read(frame) ==
    drop_duplicates_keep_last(sort_values(frame, <<"symbol", "date">>),
                              <<"symbol", "date">>)

\* _dedupe_latest (regime.py, trend.py) and _dedupe_latest_rows (engine.py):
\* sort by (symbol, date, pulled_at_utc), NaT last, and keep the last row of
\* every (symbol, date).
dedupe_latest(frame) ==
    drop_duplicates_keep_last(
        sort_values(frame, <<"symbol", "date", "pulled_at_utc">>),
        <<"symbol", "date">>)

----------------------------------------------------------------------------
\* signals/trend.py

TrendConfig ==
    [source_dir |-> SIGNALS, fallback_source_dir |-> FEATURES,
     output_dir |-> SIGNALS, write_mode |-> "upsert_latest"]

\* The feature cache read whatever the signal cache holds.
trend_read_source_frames_features_only(files, config, symbols) ==
    read_frames(files, config.fallback_source_dir, symbols)

\* _read_source_frames: the signal cache, or the feature cache when the signal
\* cache has no row of any of the symbols.
trend_read_source_frames(files, config, symbols) ==
    LET primary == read_frames(files, config.source_dir, symbols)
    IN  IF primary # <<>> THEN primary
        ELSE read_frames(files, config.fallback_source_dir, symbols)

\* The flags with a non-strict comparison against sma200.
apply_trend_flags_non_strict(frame) ==
    Bind(frame, LAMBDA f :
        [i \in DOMAIN f |->
            LET r == f[i]
                known == NotNull(r.adj_close) /\ NotNull(r.sma200) /\ NotNull(r.sma50)
                eligible == known /\ Ge(r.adj_close, r.sma200) /\ Gt(r.sma50, r.sma200)
            IN  With(r, [trend_known |-> <<known>>, trend_eligible |-> <<eligible>>])])

\* _apply_trend_flags
apply_trend_flags(frame) ==
    Bind(frame, LAMBDA f :
        [i \in DOMAIN f |->
            LET r == f[i]
                known == NotNull(r.adj_close) /\ NotNull(r.sma200) /\ NotNull(r.sma50)
                eligible == known /\ Gt(r.adj_close, r.sma200) /\ Gt(r.sma50, r.sma200)
            IN  With(r, [trend_known |-> <<known>>, trend_eligible |-> <<eligible>>])])

\* The frame apply_trend_eligibility_filter writes for the requested symbols.
trend_flagged(files, config, requested) ==
    LET source == trend_read_source_frames(files, config, requested)
        deduped == dedupe_latest(source)
        filtered == RowsOfSymbols(deduped, requested)
    IN  sort_values(apply_trend_flags(filtered), <<"symbol", "date">>)

\* apply_trend_eligibility_filter(symbols, config=config)
ApplyTrend(symbols, config) ==
    LET requested == requested_symbols_of(symbols)
        source == trend_read_source_frames(fs, config, requested)
        call == [stage |-> "trend", symbols |-> requested, config |-> config,
                 before |-> fs, run_id |-> runs]
    IN  /\ runs' = runs + 1
        /\ prev' = res
        /\ UNCHANGED procs
        /\ UNCHANGED <<clock, client>>
        /\ IF requested = <<>> \/ source = <<>>
           THEN /\ res' = call @@ [status |-> "error", frame |-> <<>>, files |-> {}]
                /\ UNCHANGED <<fs, reports>>
           ELSE \E flagged \in {trend_flagged(fs, config, requested)} :
                /\ fs' = write_partitioned_parquet(fs, flagged, config.output_dir,
                                                   config.write_mode, clock)
                /\ reports' = reports \cup {<<runs, "trend_report.json">>}
                /\ res' = call @@
                          [status |-> "ok", frame |-> flagged,
                           files |-> NewPaths(flagged, config.output_dir, clock),
                           total_rows |-> Len(flagged),
                           trend_known_rows |-> CountTrue(flagged, "trend_known"),
                           trend_eligible_rows |-> CountTrue(flagged, "trend_eligible")]

----------------------------------------------------------------------------
\* signals/regime.py

RegimeConfig ==
    [source_dir |-> FEATURES, output_dir |-> SIGNALS, benchmark_symbol |-> SPY,
     write_mode |-> "upsert_latest"]

\* The table built from the rows of every symbol.
build_regime_table_any_symbol(features, benchmark_symbol) ==
    Bind(features, LAMBDA benchmark :
            [i \in DOMAIN benchmark |->
                LET b == benchmark[i]
                    known == NotNull(b.adj_close) /\ NotNull(b.sma200)
                IN  [date |-> b.date,
                     regime_known |-> <<known>>,
                     regime_on |-> <<known /\ Gt(b.adj_close, b.sma200)>>,
                     benchmark_adj_close |-> b.adj_close,
                     benchmark_sma200 |-> b.sma200]])

\* _build_regime_table: the benchmark's rows with regime_known and regime_on;
\* an empty table stands for the ValueError raised when the benchmark has no
\* rows.
build_regime_table(features, benchmark_symbol) ==
    LET IsBenchmark(r) == r.symbol = benchmark_symbol
    IN  Bind(SelectSeq(features, IsBenchmark), LAMBDA benchmark :
            [i \in DOMAIN benchmark |->
                LET b == benchmark[i]
                    known == NotNull(b.adj_close) /\ NotNull(b.sma200)
                IN  [date |-> b.date,
                     regime_known |-> <<known>>,
                     regime_on |-> <<known /\ Gt(b.adj_close, b.sma200)>>,
                     benchmark_adj_close |-> b.adj_close,
                     benchmark_sma200 |-> b.sma200]])

\* The left merge without the fillna(False) of the two flags.
regime_merge_no_fillna(target, regime_table, benchmark_symbol) ==
    Bind(<<target, regime_table>>, LAMBDA a :
        FlattenSeq([i \in DOMAIN a[1] |->
            LET t == a[1][i]
                One(k) == With(t, [regime_known |-> a[2][k].regime_known,
                                   regime_on |-> a[2][k].regime_on,
                                   benchmark_adj_close |-> a[2][k].benchmark_adj_close,
                                   benchmark_sma200 |-> a[2][k].benchmark_sma200,
                                   regime_benchmark_symbol |-> benchmark_symbol])
            IN  Bind(SortedInts({k \in DOMAIN a[2] : a[2][k].date = t.date}),
                     LAMBDA hits :
                IF hits = <<>>
                THEN <<With(t, [regime_known |-> Null, regime_on |-> Null,
                                benchmark_adj_close |-> Null,
                                benchmark_sma200 |-> Null,
                                regime_benchmark_symbol |-> benchmark_symbol])>>
                ELSE [k \in DOMAIN hits |-> One(hits[k])])]))

\* target.merge(regime_table, on="date", how="left") and the fillna(False)
\* of the two flags that follows it.
regime_merge(target, regime_table, benchmark_symbol) ==
    Bind(<<target, regime_table>>, LAMBDA a :
        FlattenSeq([i \in DOMAIN a[1] |->
            LET t == a[1][i]
                One(k) == With(t, [regime_known |-> a[2][k].regime_known,
                                   regime_on |-> a[2][k].regime_on,
                                   benchmark_adj_close |-> a[2][k].benchmark_adj_close,
                                   benchmark_sma200 |-> a[2][k].benchmark_sma200,
                                   regime_benchmark_symbol |-> benchmark_symbol])
            IN  Bind(SortedInts({k \in DOMAIN a[2] : a[2][k].date = t.date}),
                     LAMBDA hits :
                IF hits = <<>>
                THEN <<With(t, [regime_known |-> <<FALSE>>, regime_on |-> <<FALSE>>,
                                benchmark_adj_close |-> Null,
                                benchmark_sma200 |-> Null,
                                regime_benchmark_symbol |-> benchmark_symbol])>>
                ELSE [k \in DOMAIN hits |-> One(hits[k])])]))

\* The symbols apply_market_regime_filter reads: sorted(set(requested + [benchmark])).
regime_read_symbols(requested, benchmark_symbol) ==
    SortedStrs(Range(requested) \cup {benchmark_symbol})

\* The frame apply_market_regime_filter writes for the requested symbols.
regime_merged(files, config, requested) ==
    LET benchmark_symbol == normalize_symbol(config.benchmark_symbol)
    IN  Bind(dedupe_latest(read_frames(files, config.source_dir,
                 regime_read_symbols(requested, benchmark_symbol))),
             LAMBDA features :
                 LET regime_table == build_regime_table(features, benchmark_symbol)
                     target == RowsOfSymbols(features, requested)
                 IN  sort_values(regime_merge(target, regime_table, benchmark_symbol),
                                 <<"symbol", "date">>))

\* apply_market_regime_filter(symbols, config=config)
ApplyRegime(symbols, config) ==
    LET requested == requested_symbols_of(symbols)
        benchmark_symbol == normalize_symbol(config.benchmark_symbol)
        features == read_frames(fs, config.source_dir,
                        regime_read_symbols(requested, benchmark_symbol))
        benchmark == build_regime_table(dedupe_latest(features), benchmark_symbol)
        call == [stage |-> "regime", symbols |-> requested, config |-> config,
                 before |-> fs, run_id |-> runs]
    IN  /\ runs' = runs + 1
        /\ prev' = res
        /\ UNCHANGED procs
        /\ UNCHANGED <<clock, client>>
        /\ IF requested = <<>> \/ features = <<>> \/ benchmark = <<>>
           THEN /\ res' = call @@ [status |-> "error", frame |-> <<>>, files |-> {}]
                /\ UNCHANGED <<fs, reports>>
           ELSE \E merged \in {regime_merged(fs, config, requested)} :
                /\ fs' = write_partitioned_parquet(fs, merged, config.output_dir,
                                                   config.write_mode, clock)
                /\ reports' = reports \cup {<<runs, "regime_report.json">>}
                /\ res' = call @@
                          [status |-> "ok", frame |-> merged,
                           files |-> NewPaths(merged, config.output_dir, clock),
                           total_rows |-> Len(merged),
                           regime_known_rows |-> CountTrue(merged, "regime_known"),
                           regime_on_rows |-> CountTrue(merged, "regime_on")]

----------------------------------------------------------------------------
\* indicators/engine.py

IndicatorConfig ==
    [source_dir |-> CLEANED, output_dir |-> FEATURES,
     sma200_period |-> 200, sma50_period |-> 50, ema20_period |-> 20,
     rsi14_period |-> 14, atr14_period |-> 14, rolling_high_period |-> 20,
     volume_sma50_period |-> 50, include_volume_sma50 |-> TRUE,
     write_mode |-> "upsert_latest"]

Col(frame, c) == [i \in DOMAIN frame |-> frame[i][c]]

\* Elementwise arithmetic of float cells: NaN in, NaN out.
Lift2(Op(_, _), x, y) == IF IsNull(x) \/ IsNull(y) THEN Null ELSE Op(x, y)

\* Series.shift(1)
shift1(x) == [i \in DOMAIN x |-> IF i = 1 THEN Null ELSE x[i - 1]]

\* Series.diff()
diff(x) == Bind(x, LAMBDA y : [i \in DOMAIN y |-> Lift2(RSub, y[i], shift1(y)[i])])

\* Series.rolling(period, min_periods=period): the window that ends at i, or
\* <<>> when it is not full of non-null cells.
FullWindow(x, i, period) ==
    IF i < period \/ period < 1 THEN <<>>
    ELSE Bind(SubSeq(x, i - period + 1, i), LAMBDA w :
             IF \E k \in DOMAIN w : IsNull(w[k]) THEN <<>> ELSE w)

RECURSIVE RSum(_)
RSum(w) == IF w = <<>> THEN F(0) ELSE RAdd(Head(w), RSum(Tail(w)))

RECURSIVE RMaxOf(_)
RMaxOf(w) == IF Len(w) = 1 THEN w[1] ELSE RMax(Head(w), RMaxOf(Tail(w)))

\* Series.rolling(period, min_periods=period).mean()
rolling_mean(x, period) ==
    Bind(x, LAMBDA y :
        [i \in DOMAIN y |->
            Bind(FullWindow(y, i, period), LAMBDA w :
                IF w = <<>> THEN Null ELSE RDiv(RSum(w), F(period)))])

\* Series.rolling(period, min_periods=period).max()
rolling_max(x, period) ==
    Bind(x, LAMBDA y :
        [i \in DOMAIN y |->
            Bind(FullWindow(y, i, period), LAMBDA w :
                IF w = <<>> THEN Null ELSE RMaxOf(w))])

\* One step of pandas' ewm mean (adjust=False, ignore_na=False): the state
\* after the cell cur, from the state p before it. A state is the weighted
\* average, the weight of the past and the number of observations seen.
EwmStep(p, cur, alpha) ==
    LET decayed == RMul(p.old_wt, RSub(F(1), alpha))
        nobs == p.nobs + (IF NotNull(cur) THEN 1 ELSE 0)
    IN  IF NotNull(p.weighted)
        THEN IF NotNull(cur)
             THEN [weighted |->
                       RDiv(RAdd(RMul(decayed, p.weighted), RMul(alpha, cur)),
                            RAdd(decayed, alpha)),
                   old_wt |-> F(1), nobs |-> nobs]
             ELSE [weighted |-> p.weighted, old_wt |-> decayed, nobs |-> nobs]
        ELSE [weighted |-> cur, old_wt |-> p.old_wt, nobs |-> nobs]

\* The states of the ewm mean after each cell of x.
RECURSIVE EwmStates(_, _)
EwmStates(x, alpha) ==
    Bind(x, LAMBDA y :
        IF y = <<>> THEN <<>>
        ELSE IF Len(y) = 1
        THEN <<[weighted |-> y[1], old_wt |-> F(1),
                nobs |-> IF NotNull(y[1]) THEN 1 ELSE 0]>>
        ELSE Bind(EwmStates(SubSeq(y, 1, Len(y) - 1), alpha), LAMBDA before :
                 Bind(before[Len(before)], LAMBDA p :
                     Append(before, EwmStep(p, y[Len(y)], alpha)))))

\* Series.ewm(alpha=alpha, min_periods=min_periods, adjust=False).mean()
ewm_mean(x, alpha, min_periods) ==
    Bind(EwmStates(x, alpha), LAMBDA st :
        [i \in DOMAIN st |->
            IF st[i].nobs >= min_periods THEN st[i].weighted ELSE Null])

\* delta.clip(lower=0) and -delta.clip(upper=0) of _wilder_rsi
gain_of(delta) ==
    [i \in DOMAIN delta |-> IF IsNull(delta[i]) THEN Null ELSE RMax(delta[i], F(0))]

loss_of(delta) ==
    [i \in DOMAIN delta |->
        IF IsNull(delta[i]) THEN Null ELSE RSub(F(0), RMin(delta[i], F(0)))]

\* The RSI with the zero-loss rule applied wherever the average loss is not a
\* positive number, the warm-up rows included.
wilder_rsi_fill(series, period) ==
    Bind(diff(series), LAMBDA delta :
        Bind(<<ewm_mean(gain_of(delta), Rat(1, period), period),
               ewm_mean(loss_of(delta), Rat(1, period), period)>>, LAMBDA avg :
            [i \in DOMAIN delta |->
                IF NotNull(avg[1][i]) /\ NotNull(avg[2][i]) /\ avg[2][i] # F(0)
                THEN RSub(F(100),
                          RDiv(F(100), RAdd(F(1), RDiv(avg[1][i], avg[2][i]))))
                ELSE F(100)]))

\* _wilder_rsi: avg is <<avg_gain, avg_loss>>; rs is null where avg_loss is
\* null or 0, and the RSI is 100 where avg_loss equals 0.
wilder_rsi(series, period) ==
    Bind(diff(series), LAMBDA delta :
        Bind(<<ewm_mean(gain_of(delta), Rat(1, period), period),
               ewm_mean(loss_of(delta), Rat(1, period), period)>>, LAMBDA avg :
            [i \in DOMAIN delta |->
                IF avg[2][i] = F(0) THEN F(100)
                ELSE IF IsNull(avg[1][i]) \/ IsNull(avg[2][i]) THEN Null
                ELSE RSub(F(100),
                          RDiv(F(100), RAdd(F(1), RDiv(avg[1][i], avg[2][i]))))]))

\* The largest non-null cell of a row of cells, null when all are null.
RowMax(cells) ==
    LET present == SelectSeq(cells, NotNull)
    IN  IF present = <<>> THEN Null ELSE RMaxOf(present)

AbsCell(x) == IF IsNull(x) THEN Null ELSE RAbs(x)

\* _wilder_atr
wilder_atr(adj_high, adj_low, adj_close, period) ==
    Bind(<<adj_high, adj_low, shift1(adj_close)>>, LAMBDA a :
        LET tr == [i \in DOMAIN a[1] |->
                      RowMax(<<AbsCell(Lift2(RSub, a[1][i], a[2][i])),
                               AbsCell(Lift2(RSub, a[1][i], a[3][i])),
                               AbsCell(Lift2(RSub, a[2][i], a[3][i]))>>)]
        IN  ewm_mean(tr, Rat(1, period), period))

\* The readiness columns of _compute_symbol_indicators.
readiness_columns(config) ==
    <<"sma200", "sma50", "ema20", "rsi14", "atr14", "rolling_high_20">>
        \o (IF config.include_volume_sma50 THEN <<"volume_sma50">> ELSE <<>>)

\* The series _compute_symbol_indicators derives from the rows of one symbol
\* in date order.
indicator_series(ordered, config) ==
    LET adj_close == Col(ordered, "adj_close")
        ratio == [i \in DOMAIN ordered |->
                     IF IsNull(adj_close[i]) \/ IsNull(ordered[i].close)
                            \/ ordered[i].close = F(0)
                     THEN F(1) ELSE RDiv(adj_close[i], ordered[i].close)]
        adj_high == [i \in DOMAIN ordered |-> Lift2(RMul, ordered[i].high, ratio[i])]
        adj_low == [i \in DOMAIN ordered |-> Lift2(RMul, ordered[i].low, ratio[i])]
    IN  [adj_high |-> adj_high,
         adj_low |-> adj_low,
         sma200 |-> rolling_mean(adj_close, config.sma200_period),
         sma50 |-> rolling_mean(adj_close, config.sma50_period),
         ema20 |-> ewm_mean(adj_close, Rat(2, config.ema20_period + 1),
                            config.ema20_period),
         rsi14 |-> wilder_rsi(adj_close, config.rsi14_period),
         atr14 |-> wilder_atr(adj_high, adj_low, adj_close, config.atr14_period),
         rolling_high_20 |-> rolling_max(adj_high, config.rolling_high_period),
         volume_sma50 |->
            IF config.include_volume_sma50
            THEN rolling_mean(Col(ordered, "volume"), config.volume_sma50_period)
            ELSE [i \in DOMAIN ordered |-> Null]]

\* _compute_symbol_indicators up to the readiness flag: the rows of one
\* symbol in date order with the indicator columns and indicator_ready
\* computed over every row.
indicator_columns(frame, config) ==
    Bind(sort_values(frame, <<"date">>), LAMBDA ordered :
        Bind(indicator_series(ordered, config), LAMBDA s :
            [i \in DOMAIN ordered |->
                Bind(With(ordered[i],
                          [adj_high |-> s.adj_high[i], adj_low |-> s.adj_low[i],
                           sma200 |-> s.sma200[i], sma50 |-> s.sma50[i],
                           ema20 |-> s.ema20[i], rsi14 |-> s.rsi14[i],
                           atr14 |-> s.atr14[i],
                           rolling_high_20 |-> s.rolling_high_20[i],
                           volume_sma50 |-> s.volume_sma50[i]]),
                     LAMBDA computed :
                         LET cols == readiness_columns(config)
                         IN  With(computed,
                                  [indicator_ready |->
                                       <<\A k \in DOMAIN cols :
                                             NotNull(computed[cols[k]])>>]))]))

\* The indicators of one symbol without the masking of the missing bars.
compute_symbol_indicators_unmasked(frame, config) ==
    indicator_columns(frame, config)

\* _compute_symbol_indicators: the indicator columns, with the rows of the
\* missing bars masked (every indicator null, indicator_ready false).
compute_symbol_indicators(frame, config) ==
    Bind(indicator_columns(frame, config), LAMBDA ordered :
        [i \in DOMAIN ordered |->
            IF ordered[i].is_missing_bar = <<TRUE>>
            THEN With(ordered[i],
                      [sma200 |-> Null, sma50 |-> Null, ema20 |-> Null,
                       rsi14 |-> Null, atr14 |-> Null, rolling_high_20 |-> Null,
                       volume_sma50 |-> Null, indicator_ready |-> <<FALSE>>])
            ELSE ordered[i]])

\* The symbols that have rows in the frame, sorted: groupby("symbol", sort=True).
SymbolsIn(frame) == SortedStrs({frame[i].symbol : i \in DOMAIN frame})

\* The frame compute_indicators_from_cleaned_cache writes.
indicator_features(files, config, requested) ==
    Bind(dedupe_latest(read_frames(files, config.source_dir, requested)),
         LAMBDA cleaned :
             Bind(SymbolsIn(cleaned), LAMBDA groups :
                 sort_values(
                     FlattenSeq([g \in DOMAIN groups |->
                         compute_symbol_indicators(
                             RowsOfSymbols(cleaned, <<groups[g]>>), config)]),
                     <<"symbol", "date">>)))

\* compute_indicators_from_cleaned_cache(symbols, config=config)
ComputeIndicators(symbols, config) ==
    LET requested == requested_symbols_of(symbols)
        cleaned == read_frames(fs, config.source_dir, requested)
        call == [stage |-> "indicators", symbols |-> requested, config |-> config,
                 before |-> fs, run_id |-> runs]
    IN  /\ runs' = runs + 1
        /\ prev' = res
        /\ UNCHANGED procs
        /\ UNCHANGED <<clock, client>>
        /\ IF requested = <<>> \/ cleaned = <<>>
           THEN /\ res' = call @@ [status |-> "error", frame |-> <<>>, files |-> {}]
                /\ UNCHANGED <<fs, reports>>
           ELSE \E features \in {indicator_features(fs, config, requested)} :
                /\ fs' = write_partitioned_parquet(fs, features, config.output_dir,
                                                   config.write_mode, clock)
                /\ reports' = reports \cup {<<runs, "indicators_report.json">>}
                /\ res' = call @@
                          [status |-> "ok", frame |-> features,
                           files |-> NewPaths(features, config.output_dir, clock),
                           total_rows |-> Len(features),
                           indicator_ready_rows |-> CountTrue(features, "indicator_ready")]

----------------------------------------------------------------------------
\* data/normalization.py

NormalizationConfig ==
    [source_dir |-> NORMALIZED, cleaned_dir |-> CLEANED,
     outlier_return_threshold |-> Rat(20, 100)]

\* _prepare_types: the symbol column stripped and upper-cased; the date and
\* the numeric columns are already typed in the model's frames.
prepare_types(frame) ==
    [i \in DOMAIN frame |->
        With(frame[i], [symbol |-> normalize_symbol(frame[i].symbol)])]

\* The first row of every key kept instead of the last.
remove_duplicates_keep_first(frame) ==
    Bind(sort_values(frame, <<"symbol", "date">>), LAMBDA ordered :
        Bind([i \in DOMAIN ordered |->
                 \E j \in DOMAIN ordered :
                     j < i /\ SameKey(ordered[i], ordered[j], <<"symbol", "date">>)],
             LAMBDA duplicate_mask :
                 <<Masked(ordered, [i \in DOMAIN ordered |-> ~duplicate_mask[i]]),
                   Cardinality({i \in DOMAIN ordered : duplicate_mask[i]})>>))

\* _remove_duplicates: <<the deduplicated frame, the number of rows removed>>
remove_duplicates(frame) ==
    Bind(sort_values(frame, <<"symbol", "date">>), LAMBDA ordered :
        Bind(duplicated_keep_last(ordered, <<"symbol", "date">>),
             LAMBDA duplicate_mask :
                 <<Masked(ordered, [i \in DOMAIN ordered |-> ~duplicate_mask[i]]),
                   Cardinality({i \in DOMAIN ordered : duplicate_mask[i]})>>))

RowMin(cells) ==
    LET present == SelectSeq(cells, NotNull)
        RECURSIVE MinOf(_)
        MinOf(w) == IF Len(w) = 1 THEN w[1] ELSE RMin(Head(w), MinOf(Tail(w)))
    IN  IF present = <<>> THEN Null ELSE MinOf(present)

\* The prices only required not to be negative.
valid_row_non_strict(r) ==
    LET required_not_null ==
            /\ NotNull(r.symbol) /\ NotNull(r.open) /\ NotNull(r.high)
            /\ NotNull(r.low) /\ NotNull(r.close) /\ NotNull(r.adj_close)
            /\ NotNull(r.volume)
        positive_prices ==
            /\ Ge(r.open, F(0)) /\ Ge(r.high, F(0)) /\ Ge(r.low, F(0))
            /\ Ge(r.close, F(0)) /\ Ge(r.adj_close, F(0))
        non_negative_volume == Ge(r.volume, F(0))
        high_ok == Ge(r.high, RowMax(<<r.open, r.close, r.low>>))
        low_ok == Ge(RowMin(<<r.open, r.close, r.high>>), r.low)
    IN  required_not_null /\ positive_prices /\ non_negative_volume
            /\ high_ok /\ low_ok

\* valid_mask of _remove_invalid_rows for one row; the date of a row of the
\* model's frames is never null.
valid_row(r) ==
    LET required_not_null ==
            /\ NotNull(r.symbol) /\ NotNull(r.open) /\ NotNull(r.high)
            /\ NotNull(r.low) /\ NotNull(r.close) /\ NotNull(r.adj_close)
            /\ NotNull(r.volume)
        positive_prices ==
            /\ Gt(r.open, F(0)) /\ Gt(r.high, F(0)) /\ Gt(r.low, F(0))
            /\ Gt(r.close, F(0)) /\ Gt(r.adj_close, F(0))
        non_negative_volume == Ge(r.volume, F(0))
        high_ok == Ge(r.high, RowMax(<<r.open, r.close, r.low>>))
        low_ok == Ge(RowMin(<<r.open, r.close, r.high>>), r.low)
    IN  required_not_null /\ positive_prices /\ non_negative_volume
            /\ high_ok /\ low_ok

\* _remove_invalid_rows: <<the valid rows, the number of rows removed>>
remove_invalid_rows(frame) ==
    Bind(frame, LAMBDA f :
        Bind(SelectSeq(f, valid_row), LAMBDA valid :
            <<valid, Len(f) - Len(valid)>>))

\* groupby("symbol")["adj_close"].pct_change() at row i of the sorted frame
pct_change(sorted, i) ==
    IF i = 1 \/ sorted[i - 1].symbol # sorted[i].symbol THEN Null
    ELSE IF IsNull(sorted[i].adj_close) \/ IsNull(sorted[i - 1].adj_close)
              \/ sorted[i - 1].adj_close = F(0)
         THEN Null
         ELSE RSub(RDiv(sorted[i].adj_close, sorted[i - 1].adj_close), F(1))

\* A return equal to the threshold flagged as well.
flag_outliers_non_strict(frame, threshold) ==
    Bind(sort_values(frame, <<"symbol", "date">>), LAMBDA sorted :
        Bind([i \in DOMAIN sorted |->
                 Bind(pct_change(sorted, i), LAMBDA daily_return :
                     With(sorted[i],
                          [daily_return |-> daily_return,
                           is_outlier_jump |->
                               <<Ge(AbsCell(daily_return), threshold)>>]))],
             LAMBDA flagged : <<flagged, CountTrue(flagged, "is_outlier_jump")>>))

\* _flag_outliers: <<the frame with daily_return and is_outlier_jump, the
\* number of rows flagged>>
flag_outliers(frame, threshold) ==
    Bind(sort_values(frame, <<"symbol", "date">>), LAMBDA sorted :
        Bind([i \in DOMAIN sorted |->
                 Bind(pct_change(sorted, i), LAMBDA daily_return :
                     With(sorted[i],
                          [daily_return |-> daily_return,
                           is_outlier_jump |->
                               <<Gt(AbsCell(daily_return), threshold)>>]))],
             LAMBDA flagged : <<flagged, CountTrue(flagged, "is_outlier_jump")>>))

\* The sorted distinct dates of a frame.
DatesIn(frame) == SortedInts({frame[i].date : i \in DOMAIN frame})

\* calendar.merge(frame, on=["symbol", "date"], how="left", sort=True): per
\* (symbol, date) of the calendar, the rows of the frame with that key, or
\* one row with every other column null.
calendar_merge(frame, requested, all_dates) ==
    FlattenSeq([s \in DOMAIN requested |->
        FlattenSeq([d \in DOMAIN all_dates |->
            Bind(SortedInts({k \in DOMAIN frame :
                                frame[k].symbol = requested[s]
                                    /\ frame[k].date = all_dates[d]}),
                 LAMBDA hits :
                     IF hits = <<>>
                     THEN <<Row([symbol |-> requested[s], date |-> all_dates[d]])>>
                     ELSE [k \in DOMAIN hits |-> frame[hits[k]]])])])

\* The rows of the calendar that have no row of the frame are not marked.
align_without_missing_flag(frame, symbols) ==
    IF frame = <<>> THEN <<<<>>, 0>>
    ELSE Bind(<<frame, DatesIn(frame), requested_symbols_of(symbols)>>, LAMBDA a :
             Bind(calendar_merge(a[1], IF a[3] = <<>> THEN SymbolsIn(a[1]) ELSE a[3],
                                 a[2]),
                  LAMBDA merged :
                      Bind([i \in DOMAIN merged |->
                               With(merged[i], [is_missing_bar |-> <<FALSE>>])],
                           LAMBDA aligned :
                               <<aligned, CountTrue(aligned, "is_missing_bar")>>)))

\* _align_to_common_calendar: <<the aligned frame, the number of missing bars>>
align_to_common_calendar(frame, symbols) ==
    IF frame = <<>> THEN <<<<>>, 0>>
    ELSE Bind(<<frame, DatesIn(frame), requested_symbols_of(symbols)>>, LAMBDA a :
             Bind(calendar_merge(a[1], IF a[3] = <<>> THEN SymbolsIn(a[1]) ELSE a[3],
                                 a[2]),
                  LAMBDA merged :
                      Bind([i \in DOMAIN merged |->
                               With(merged[i],
                                    [is_missing_bar |-> <<IsNull(merged[i].open)>>])],
                           LAMBDA aligned :
                               <<aligned, CountTrue(aligned, "is_missing_bar")>>)))

\* _write_partitioned_parquet of normalization.py: per (symbol, year, month)
\* group, write part-<timestamp>.parquet; nothing is unlinked.
normalization_write_partitioned_parquet(files, frame, base_dir, now) ==
    LET made == NewPaths(frame, base_dir, now)
    IN  [p \in DOMAIN files \cup made |->
            IF p \in made THEN Chunk(frame, <<p[2], p[3]>>) ELSE files[p]]

\* The invalid rows removed before the duplicates.
quality_steps_validate_first(files, config, requested) ==
    Bind(read_frames(files, config.source_dir, requested), LAMBDA source :
    Bind(remove_invalid_rows(prepare_types(source)), LAMBDA valid :
    Bind(remove_duplicates(valid[1]), LAMBDA deduped :
    Bind(flag_outliers(deduped[1], config.outlier_return_threshold), LAMBDA flagged :
    Bind(align_to_common_calendar(flagged[1], requested), LAMBDA aligned :
        [source |-> source, deduped |-> deduped[1], valid |-> deduped[1],
         flagged |-> flagged[1], aligned |-> aligned[1],
         summary |->
            [symbols_requested |-> Len(requested),
             source_rows |-> Len(source),
             duplicate_rows_removed |-> deduped[2],
             invalid_rows_removed |-> valid[2],
             outlier_rows_flagged |-> flagged[2],
             aligned_rows |-> Len(aligned[1]),
             missing_bar_rows |-> aligned[2],
             outlier_return_threshold |-> config.outlier_return_threshold,
             warnings |-> IF source = <<>>
                          THEN <<"No source rows found for requested symbols.">>
                          ELSE <<>>]])))))

\* The steps of normalize_daily_data_cache on the source cache.
quality_steps(files, config, requested) ==
    Bind(read_frames(files, config.source_dir, requested), LAMBDA source :
    Bind(remove_duplicates(prepare_types(source)), LAMBDA deduped :
    Bind(remove_invalid_rows(deduped[1]), LAMBDA valid :
    Bind(flag_outliers(valid[1], config.outlier_return_threshold), LAMBDA flagged :
    Bind(align_to_common_calendar(flagged[1], requested), LAMBDA aligned :
        [source |-> source, deduped |-> deduped[1], valid |-> valid[1],
         flagged |-> flagged[1], aligned |-> aligned[1],
         summary |->
            [symbols_requested |-> Len(requested),
             source_rows |-> Len(source),
             duplicate_rows_removed |-> deduped[2],
             invalid_rows_removed |-> valid[2],
             outlier_rows_flagged |-> flagged[2],
             aligned_rows |-> Len(aligned[1]),
             missing_bar_rows |-> aligned[2],
             outlier_return_threshold |-> config.outlier_return_threshold,
             warnings |-> IF source = <<>>
                          THEN <<"No source rows found for requested symbols.">>
                          ELSE <<>>]])))))

\* normalize_daily_data_cache(symbols, config=config)
Normalize(symbols, config) ==
    LET requested == requested_symbols_of(symbols)
        call == [stage |-> "quality", symbols |-> requested, config |-> config,
                 before |-> fs, run_id |-> runs]
    IN  /\ runs' = runs + 1
        /\ prev' = res
        /\ UNCHANGED procs
        /\ UNCHANGED <<clock, client>>
        /\ IF requested = <<>>
           THEN /\ res' = call @@ [status |-> "error", frame |-> <<>>, files |-> {}]
                /\ UNCHANGED <<fs, reports>>
           ELSE \E steps \in {quality_steps(fs, config, requested)} :
                /\ fs' = normalization_write_partitioned_parquet(
                             fs, steps.aligned, config.cleaned_dir, clock)
                /\ reports' = reports \cup {<<runs, "normalization_report.json">>}
                /\ res' = call @@
                          [status |-> "ok", frame |-> steps.aligned,
                           files |-> NewPaths(steps.aligned, config.cleaned_dir, clock),
                           steps |-> steps, quality_summary |-> steps.summary]

----------------------------------------------------------------------------
\* data/ibkr_ingestion.py
\*
\* The broker is a script: for every <<symbol, what_to_show>> the outcomes of
\* the successive request_historical_data calls, the last one repeating. An
\* outcome is [ok |-> TRUE, bars |-> ...] or [ok |-> FALSE, error |-> ...]; a
\* bar is a record of date, open, high, low, close and volume cells.

DailyIngestionConfig ==
    [what_to_show_raw |-> "TRADES", what_to_show_adjusted |-> "ADJUSTED_LAST",
     batch_size |-> 25, max_retries |-> 3,
     raw_cache_dir |-> RAW, normalized_cache_dir |-> NORMALIZED]

\* The outcome of call number k (from 1) on the key of the script.
Outcome(script, key, k) ==
    LET s == script[key]
    IN  IF k <= Len(s) THEN s[k] ELSE s[Len(s)]

\* IBKRClient.request_historical_data raises when the client is not connected.
Offline(script) ==
    [k \in DOMAIN script |-> <<[ok |-> FALSE, error |-> "IBKR is not connected"]>>]

\* _bars_to_frame: the bars without a null price, sorted by date; a null
\* volume is 0.
bars_to_frame(bars) ==
    LET Complete(b) == NotNull(b.open) /\ NotNull(b.high) /\ NotNull(b.low)
                           /\ NotNull(b.close)
        kept == SelectSeq(bars, Complete)
    IN  sort_values(
            [i \in DOMAIN kept |->
                Row([date |-> kept[i].date, open |-> kept[i].open,
                     high |-> kept[i].high, low |-> kept[i].low,
                     close |-> kept[i].close,
                     volume |-> IF IsNull(kept[i].volume) THEN F(0)
                                ELSE kept[i].volume])],
            <<"date">>)

\* _request_bars_with_retries, the calls on the key starting after `served`
\* earlier ones: the number of calls and of sleeps it makes, and what it
\* returns or raises.
\* A sleep after the last failed attempt as well.
RECURSIVE request_attempts_sleep_last(_, _, _, _, _)
request_attempts_sleep_last(script, key, served, max_retries, attempt) ==
    IF attempt >= max_retries
    THEN [calls |-> 0, sleeps |-> 0, raised |-> FALSE, error |-> "", bars |-> <<>>]
    ELSE LET out == Outcome(script, key, served + attempt + 1)
         IN  IF out.ok
             THEN [calls |-> 1, sleeps |-> 0, raised |-> FALSE, error |-> "",
                   bars |-> out.bars]
             ELSE IF attempt + 1 >= max_retries
             THEN [calls |-> 1, sleeps |-> 1, raised |-> TRUE, error |-> out.error,
                   bars |-> <<>>]
             ELSE LET rest == request_attempts_sleep_last(script, key, served,
                                                          max_retries, attempt + 1)
                  IN  [rest EXCEPT !.calls = @ + 1, !.sleeps = @ + 1]

RECURSIVE request_attempts(_, _, _, _, _)
request_attempts(script, key, served, max_retries, attempt) ==
    IF attempt >= max_retries
    THEN [calls |-> 0, sleeps |-> 0, raised |-> FALSE, error |-> "", bars |-> <<>>]
    ELSE LET out == Outcome(script, key, served + attempt + 1)
         IN  IF out.ok
             THEN [calls |-> 1, sleeps |-> 0, raised |-> FALSE, error |-> "",
                   bars |-> out.bars]
             ELSE IF attempt + 1 >= max_retries
             THEN [calls |-> 1, sleeps |-> 0, raised |-> TRUE, error |-> out.error,
                   bars |-> <<>>]
             ELSE LET rest == request_attempts(script, key, served, max_retries,
                                               attempt + 1)
                  IN  [rest EXCEPT !.calls = @ + 1, !.sleeps = @ + 1]

request_bars_with_retries(script, key, served, config) ==
    request_attempts(script, key, served, config.max_retries, 0)

\* raw_df[["date", "close"]].merge(adj_df[["date", "close"]], on="date",
\* how="left"): per raw row, one merged row per adjusted row of its date, or
\* one with a null candidate.
adjusted_merge(raw_df, adj_df) ==
    FlattenSeq([i \in DOMAIN raw_df |->
        Bind(SortedInts({k \in DOMAIN adj_df : adj_df[k].date = raw_df[i].date}),
             LAMBDA hits :
                 IF hits = <<>>
                 THEN <<[date |-> raw_df[i].date, close |-> raw_df[i].close,
                         adj_close_candidate |-> Null]>>
                 ELSE [k \in DOMAIN hits |->
                         [date |-> raw_df[i].date, close |-> raw_df[i].close,
                          adj_close_candidate |-> adj_df[hits[k]].close]])])

\* No warning when the adjusted stream has no bars.
adjustment_warnings_quiet(raised, adj_df, valid_adj) ==
    IF raised THEN <<"Adjusted close request failed">>
    ELSE IF adj_df = <<>> THEN <<>>
    ELSE IF ~valid_adj THEN <<"No adjusted close values available">>
    ELSE <<>>

\* The warnings of _build_symbol_frames: one when the adjusted request
\* raised, returned no usable bar, or no bar of a raw date.
adjustment_warnings(raised, adj_df, valid_adj) ==
    IF raised THEN <<"Adjusted close request failed">>
    ELSE IF adj_df = <<>> THEN <<"No ADJUSTED_LAST bars available">>
    ELSE IF ~valid_adj THEN <<"No adjusted close values available">>
    ELSE <<>>

\* The frames _build_symbol_frames returns once the raw frame is not empty;
\* a is <<raw_df, adj_req, adj_df, merged>>.
adjusted_frames(a, normalized_symbol, now) ==
    LET raw_df == a[1]
        adj_req == a[2]
        adj_df == a[3]
        merged == a[4]
        valid_adj == \E i \in DOMAIN merged : NotNull(merged[i].adj_close_candidate)
        use_adjusted == ~adj_req.raised /\ adj_df # <<>> /\ valid_adj
        adjustment_method ==
            IF use_adjusted THEN "ibkr_adjusted_last_factor" ELSE "none"
        \* adj_close_series and adjustment_factor are indexed like merged; the
        \* assignment of a series to a column aligns on the index
        adj_close_series(i) ==
            IF NotNull(merged[i].adj_close_candidate)
            THEN merged[i].adj_close_candidate ELSE merged[i].close
        adjustment_factor(i) ==
            IF merged[i].close = F(0) THEN F(1)
            ELSE RDiv(adj_close_series(i), merged[i].close)
    IN  [normalized_df |->
            [i \in DOMAIN raw_df |->
                With(raw_df[i],
                     [symbol |-> normalized_symbol,
                      adj_close |-> IF use_adjusted THEN adj_close_series(i)
                                    ELSE raw_df[i].close,
                      adjustment_factor |-> IF use_adjusted THEN adjustment_factor(i)
                                            ELSE F(1),
                      adjustment_method |-> <<adjustment_method>>,
                      pulled_at_utc |-> <<now>>])],
         raw_df |->
            [i \in DOMAIN raw_df |->
                With(raw_df[i], [symbol |-> normalized_symbol,
                                 pulled_at_utc |-> <<now>>])],
         adjustment_method |-> adjustment_method,
         warnings |-> adjustment_warnings(adj_req.raised, adj_df, valid_adj)]

\* _build_symbol_frames: the raw and normalized frames of one symbol, the
\* adjustment method and the warnings, or the error raised; with the calls
\* made on the broker.
build_symbol_frames(script, served, symbol, config, now) ==
    Bind(normalize_symbol(symbol), LAMBDA normalized_symbol :
    Bind(<<<<normalized_symbol, config.what_to_show_raw>>,
           <<normalized_symbol, config.what_to_show_adjusted>>>>, LAMBDA key :
    Bind(request_bars_with_retries(script, key[1], served[key[1]], config),
         LAMBDA raw_req :
    Bind(bars_to_frame(raw_req.bars), LAMBDA raw_df :
        IF raw_req.raised \/ raw_df = <<>>
        THEN [raised |-> TRUE,
              error |-> IF raw_req.raised THEN raw_req.error
                        ELSE "No raw bars returned",
              raw_df |-> <<>>, normalized_df |-> <<>>,
              adjustment_method |-> "none", warnings |-> <<>>,
              raw_calls |-> raw_req.calls, raw_sleeps |-> raw_req.sleeps,
              raw_raised |-> raw_req.raised, raw_error |-> raw_req.error,
              adj_calls |-> 0, adj_sleeps |-> 0,
              adj_raised |-> FALSE, adj_error |-> "", adj_bars |-> <<>>,
              raw_bars |-> raw_req.bars,
              served |-> [k \in DOMAIN served |->
                             IF k = key[1] THEN served[k] + raw_req.calls
                             ELSE served[k]]]
        ELSE
    Bind(request_bars_with_retries(script, key[2], served[key[2]], config),
         LAMBDA adj_req :
    Bind(bars_to_frame(adj_req.bars), LAMBDA adj_df :
    Bind(adjusted_frames(<<raw_df, adj_req, adj_df, adjusted_merge(raw_df, adj_df)>>,
                         normalized_symbol, now), LAMBDA made :
        [raised |-> FALSE, error |-> "",
         raw_df |-> made.raw_df, normalized_df |-> made.normalized_df,
         adjustment_method |-> made.adjustment_method, warnings |-> made.warnings,
         raw_calls |-> raw_req.calls, raw_sleeps |-> raw_req.sleeps,
         raw_raised |-> FALSE, raw_error |-> "",
         adj_calls |-> adj_req.calls, adj_sleeps |-> adj_req.sleeps,
         adj_raised |-> adj_req.raised, adj_error |-> adj_req.error,
         raw_bars |-> raw_req.bars,
         adj_bars |-> IF adj_req.raised THEN <<>> ELSE adj_req.bars,
         served |-> [k \in DOMAIN served |->
                        IF k = key[1] THEN served[k] + raw_req.calls
                        ELSE IF k = key[2] THEN served[k] + adj_req.calls
                        ELSE served[k]]])))))))

\* _write_partitioned_parquet of ibkr_ingestion.py: per (year, month) group of
\* the frame, write part-<timestamp>.parquet under symbol=<symbol>; nothing is
\* unlinked.
ingestion_write_partitioned_parquet(files, frame, base_dir, symbol, now) ==
    LET months == {YearMonth(frame[i].date) : i \in DOMAIN frame}
        made == {<<base_dir, symbol, m, now>> : m \in months}
        InMonth(m) == LET Test(r) == YearMonth(r.date) = m IN SelectSeq(frame, Test)
    IN  [p \in DOMAIN files \cup made |->
            IF p \in made THEN InMonth(p[3]) ELSE files[p]]

\* _batched
RECURSIVE batched(_, _)
batched(symbols, batch_size) ==
    IF batch_size <= 0 THEN <<symbols>>
    ELSE IF symbols = <<>> THEN <<>>
    ELSE IF Len(symbols) <= batch_size THEN <<symbols>>
    ELSE <<SubSeq(symbols, 1, batch_size)>>
             \o batched(SubSeq(symbols, batch_size + 1, Len(symbols)), batch_size)

\* One pass of the per-symbol loop of ingest_daily_bars: the state after
\* the symbol, from the state st before it and what _build_symbol_frames
\* made; a failure is recorded under the symbol, a success is written to the
\* raw and the normalized cache and appended to the results.
ingest_symbol(st, symbol, built, config, seconds) ==
    LET trace == [symbol |-> symbol, raised |-> built.raised,
                  error |-> built.error,
                  raw_calls |-> built.raw_calls, raw_sleeps |-> built.raw_sleeps,
                  adj_calls |-> built.adj_calls, adj_sleeps |-> built.adj_sleeps,
                  \* what the requests saw, for the properties below
                  served |-> st.served, raw_bars |-> built.raw_bars,
                  raw_raised |-> built.raw_raised, raw_error |-> built.raw_error,
                  adj_raised |-> built.adj_raised, adj_error |-> built.adj_error,
                  failures_after |-> IF built.raised
                                     THEN DOMAIN st.failures \cup {symbol}
                                     ELSE DOMAIN st.failures,
                  results_after |-> IF built.raised THEN Len(st.results)
                                    ELSE Len(st.results) + 1]
    IN  IF built.raised
        THEN [st EXCEPT !.failures =
                            [s \in DOMAIN @ \cup {symbol} |->
                                IF s = symbol THEN built.error ELSE @[s]],
                        !.served = built.served,
                        !.trace = Append(@, trace),
                        !.now = @ + seconds]
        ELSE [st EXCEPT !.files =
                            ingestion_write_partitioned_parquet(
                                ingestion_write_partitioned_parquet(
                                    st.files, built.raw_df, config.raw_cache_dir,
                                    symbol, st.now),
                                built.normalized_df, config.normalized_cache_dir,
                                symbol, st.now),
                        !.results =
                            Append(@,
                                [symbol |-> symbol,
                                 row_count |-> Len(built.normalized_df),
                                 adjustment_method |-> built.adjustment_method,
                                 normalized_files |->
                                     {<<config.normalized_cache_dir, symbol,
                                        YearMonth(r.date), st.now>> :
                                          r \in Range(built.normalized_df)},
                                 warnings |-> built.warnings,
                                 \* what the call saw, for the properties below
                                 rows |-> built.normalized_df,
                                 adj_raised |-> built.adj_raised,
                                 adj_bars |-> built.adj_bars,
                                 raw_bars |-> built.raw_bars]),
                        !.served = built.served,
                        !.trace = Append(@, trace),
                        !.now = @ + seconds]

\* The per-symbol loop of ingest_daily_bars from symbol number i on: st holds
\* the files, the results, the failures, the calls served by the broker and
\* the clock; elapsed[i] seconds pass while symbol i is processed.
RECURSIVE ingest_loop(_, _, _, _, _, _)
ingest_loop(st, order, i, script, config, elapsed) ==
    IF i > Len(order) THEN st
    ELSE Bind(st, LAMBDA before :
             Bind(build_symbol_frames(script, before.served, order[i], config,
                                      before.now), LAMBDA built :
                 Bind(ingest_symbol(before, order[i], built, config, elapsed[i]),
                      LAMBDA after :
                          ingest_loop(after, order, i + 1, script, config, elapsed))))

\* The run disconnects whenever auto_connect is set, also a client that was
\* connected on entry.
connects_here_always(auto_connect, connected) ==
    auto_connect

\* if auto_connect and not client.is_connected(): the run calls
\* client.connect() and, once it returned, owns the session.
connects_here(auto_connect, connected) ==
    auto_connect /\ ~connected

\* ingest_daily_bars(client, symbols, config=config, auto_connect=auto_connect);
\* accepts tells whether the broker accepts the connection: client.connect()
\* raises IBKRConnectionError when it does not, and the run ends there.
Ingest(symbols, config, auto_connect, script, elapsed, accepts) ==
    LET kept == SelectSeq(symbols, LAMBDA s : Strip(s) # <<>>)
        requested_symbols == [i \in DOMAIN kept |-> normalize_symbol(kept[i])]
        connecting == connects_here(auto_connect, client.connected)
        connected_here == connecting /\ accepts
        order == FlattenSeq(batched(requested_symbols, config.batch_size))
        start == [files |-> fs, results |-> <<>>, failures |-> <<>>,
                  served |-> [k \in DOMAIN script |-> 0], trace |-> <<>>,
                  now |-> clock]
        online == client.connected \/ connected_here
        call == [stage |-> "ingestion", config |-> config,
                 symbols |-> requested_symbols, before |-> fs, run_id |-> runs,
                 symbols_requested |-> Len(requested_symbols),
                 script |-> script, auto_connect |-> auto_connect,
                 connected_on_entry |-> client.connected]
    IN  /\ runs' = runs + 1
        /\ prev' = res
        /\ UNCHANGED procs
        /\ IF connecting /\ ~accepts
           THEN /\ res' = call @@
                          [status |-> "error", symbols_succeeded |-> 0,
                           symbols_failed |-> 0, results |-> <<>>,
                           failures |-> <<>>, trace |-> <<>>,
                           broker |-> Offline(script),
                           client_calls |-> <<"connect">>]
                /\ UNCHANGED <<fs, reports, clock, client>>
           ELSE \E done \in {ingest_loop(start, order, 1,
                                  IF online THEN script ELSE Offline(script),
                                  config, elapsed)} :
                /\ clock' = done.now
                /\ client' = [connected |-> IF connected_here THEN FALSE
                                            ELSE client.connected]
                /\ fs' = done.files
                /\ reports' = reports \cup {<<runs, "metadata.json">>}
                /\ res' = call @@
                          [status |-> "ok",
                           symbols_succeeded |-> Len(done.results),
                           symbols_failed |-> Cardinality(DOMAIN done.failures),
                           results |-> done.results, failures |-> done.failures,
                           trace |-> done.trace,
                           broker |-> IF online THEN script ELSE Offline(script),
                           client_calls |-> IF connected_here
                                            THEN <<"connect", "disconnect">>
                                            ELSE <<>>]

\* A second passes on the wall clock.
Tick == /\ clock' = clock + 1
        /\ UNCHANGED <<fs, reports, runs, client, res, prev, procs>>

----------------------------------------------------------------------------
\* Bounds of the model.

\* The stage calls of one behaviour.
MaxRuns == 1

\* The last second the clock reaches.
MaxClock == 1

\* The rows seeded into the feature cache, and into the signal cache.
MaxFeatureRows == 2

MaxSignalRows == 1

\* The cache content a behaviour starts from: entries [cache, symbol, name,
\* row], each a row of the part file `name` of its (symbol, year, month).
SeedFs(seed) ==
    LET PathOf(e) == <<e.cache, e.symbol, YearMonth(e.row.date), e.name>>
        paths == {PathOf(seed[i]) : i \in DOMAIN seed}
    IN  [p \in paths |->
            LET Mine(e) == PathOf(e) = p
                mine == SelectSeq(seed, Mine)
            IN  [i \in DOMAIN mine |-> mine[i].row]]

Idle == [stage |-> "none", status |-> "none"]

BoundedTick == clock < MaxClock /\ Tick

----------------------------------------------------------------------------
\* The signal filters on seeded feature and signal caches.

\* A feature row: adj_close, sma200, sma50 and pulled_at_utc as given.
FeatureRow(symbol, date, v) ==
    Row([symbol |-> symbol, date |-> date, open |-> F(3), high |-> F(3),
         low |-> F(3), close |-> F(3), volume |-> F(1),
         adj_close |-> v[1], sma200 |-> v[2], sma50 |-> v[3],
         pulled_at_utc |-> v[4], is_missing_bar |-> <<FALSE>>])

FeatureVariants ==
    {<<F(3), F(2), F(3), <<1>>>>,    \* above sma200, sma50 above sma200
     <<F(2), F(2), F(3), <<2>>>>,    \* adj_close equal to sma200
     <<F(3), F(2), F(2), <<2>>>>,    \* sma50 equal to sma200
     <<F(3), Null, F(3), <<1>>>>}    \* sma200 not yet defined

SignalDates == 1..2

FeatureSeeds ==
    {[cache |-> FEATURES, symbol |-> s, name |-> 0, row |-> FeatureRow(s, d, v)] :
        s \in {SPY, AAPL}, d \in SignalDates, v \in FeatureVariants}

SignalSeeds ==
    {[cache |-> SIGNALS, symbol |-> s, name |-> n, row |-> FeatureRow(s, d, v)] :
        s \in {SPY, AAPL}, d \in {1}, n \in {0},
        v \in {<<F(3), F(2), F(3), <<3>>>>}}

SignalSymbolLists == {<<AAPL>>, <<SPY, <<"a", "a", "p", "l">>>>, <<<<" ">>>>}

InitSignals ==
    /\ \E f \in SeqsUpTo(FeatureSeeds, MaxFeatureRows),
          g \in SeqsUpTo(SignalSeeds, MaxSignalRows) : fs = SeedFs(f \o g)
    /\ reports = {}
    /\ clock = 0
    /\ runs = 0
    /\ client = [connected |-> FALSE]
    /\ res = Idle
    /\ prev = Idle
    /\ procs = <<>>

RunRegime ==
    /\ runs < MaxRuns
    /\ \E symbols \in SignalSymbolLists : ApplyRegime(symbols, RegimeConfig)

RunTrend ==
    /\ runs < MaxRuns
    /\ \E symbols \in SignalSymbolLists : ApplyTrend(symbols, TrendConfig)

NextSignals == RunRegime \/ RunTrend \/ BoundedTick

SpecSignals == InitSignals /\ [][NextSignals]_vars

\* The rows of the part files the last call wrote, as they are in the store.
RECURSIVE RowsAt(_, _)
RowsAt(files, paths) ==
    IF paths = {} THEN <<>>
    ELSE LET p == CHOOSE q \in paths : TRUE
         IN  files[p] \o RowsAt(files, paths \ {p})

WrittenRows == RowsAt(fs, res.files)

\* The rows of (symbol, date) stored in a cache tree.
StoredRows(files, cache, symbol, date) ==
    {r \in UNION {Range(files[p]) : p \in CachePaths(files, cache)} :
        r.symbol = symbol /\ r.date = date}

\* The dates on which a cache tree stores rows of the symbol.
StoredDates(files, cache, symbol) ==
    {r.date : r \in {q \in UNION {Range(files[p]) : p \in CachePaths(files, cache)} :
                        q.symbol = symbol}}

\* The rows of the set that no row of the set is fresher than.
Freshest(rows) ==
    {r \in rows : \A q \in rows :
        NotNull(q.pulled_at_utc) =>
            NotNull(r.pulled_at_utc) /\ q.pulled_at_utc[1] <= r.pulled_at_utc[1]}

RowsOn(frame, symbol, date) ==
    {i \in DOMAIN frame : frame[i].symbol = symbol /\ frame[i].date = date}

RegimeDone == res.stage = "regime" /\ res.status = "ok"

TrendDone == res.stage = "trend" /\ res.status = "ok"

\* C7: every row the regime filter writes for a requested symbol s and date d
\* has regime_known true iff the benchmark's freshest feature row for d has
\* adj_close and sma200 non-null, and regime_on true iff regime_known and
\* that adj_close is strictly above that sma200; both flags are booleans,
\* never null, and false when the benchmark has no row for d; all requested
\* symbols share the values of a date, and the output has exactly one row per
\* (symbol, date) of the requested symbols' feature rows.
C7_RegimeFlags ==
    RegimeDone =>
        LET out == WrittenRows
            bench(d) == Freshest(StoredRows(res.before, FEATURES, SPY, d))
            Agrees(r, b) ==
                LET known == NotNull(b.adj_close) /\ NotNull(b.sma200)
                IN  /\ r.regime_known = <<known>>
                    /\ r.regime_on = <<known /\ Gt(b.adj_close, b.sma200)>>
        IN  /\ \A i \in DOMAIN out :
                  /\ out[i].regime_known \in {<<TRUE>>, <<FALSE>>}
                  /\ out[i].regime_on \in {<<TRUE>>, <<FALSE>>}
                  /\ InSymbols(out[i].symbol, res.symbols)
            /\ \A d \in {out[i].date : i \in DOMAIN out} :
                  IF bench(d) = {}
                  THEN \A i \in DOMAIN out : out[i].date = d =>
                          /\ out[i].regime_known = <<FALSE>>
                          /\ out[i].regime_on = <<FALSE>>
                  ELSE \E b \in bench(d) :
                          \A i \in DOMAIN out : out[i].date = d => Agrees(out[i], b)
            /\ \A k \in DOMAIN res.symbols :
                  \A d \in StoredDates(res.before, FEATURES, res.symbols[k]) :
                      Cardinality(RowsOn(out, res.symbols[k], d)) = 1
            /\ \A i \in DOMAIN out :
                  out[i].date \in StoredDates(res.before, FEATURES, out[i].symbol)

\* The regime filter writes a row with the regime on and, for a date the
\* benchmark has no row of, a row with both flags false.
C7_Witness ==
    /\ RegimeDone
    /\ \E i, j \in DOMAIN WrittenRows :
          /\ WrittenRows[i].regime_on = <<TRUE>>
          /\ StoredRows(res.before, FEATURES, SPY, WrittenRows[j].date) = {}
          /\ WrittenRows[j].regime_known = <<FALSE>>
          /\ WrittenRows[j].regime_on = <<FALSE>>

\* C8: every row the trend filter writes has trend_known true iff adj_close,
\* sma200 and sma50 are all non-null, and trend_eligible true iff trend_known
\* and adj_close > sma200 and sma50 > sma200, both strictly; trend_eligible
\* implies trend_known; the reported trend_known_rows and trend_eligible_rows
\* are the numbers of written rows with each flag true.
C8_TrendFlags ==
    TrendDone =>
        LET out == WrittenRows
            Known(r) == NotNull(r.adj_close) /\ NotNull(r.sma200) /\ NotNull(r.sma50)
            Above(x, y) == x[1] * y[2] > y[1] * x[2]
        IN  /\ \A i \in DOMAIN out :
                  /\ out[i].trend_known = <<Known(out[i])>>
                  /\ out[i].trend_eligible =
                        <<Known(out[i]) /\ Above(out[i].adj_close, out[i].sma200)
                                       /\ Above(out[i].sma50, out[i].sma200)>>
                  /\ out[i].trend_eligible = <<TRUE>> => out[i].trend_known = <<TRUE>>
            /\ res.trend_known_rows =
                  Cardinality({i \in DOMAIN out : out[i].trend_known = <<TRUE>>})
            /\ res.trend_eligible_rows =
                  Cardinality({i \in DOMAIN out : out[i].trend_eligible = <<TRUE>>})

\* The trend filter writes an eligible row and a known row whose adj_close
\* equals its sma200.
C8_Witness ==
    /\ TrendDone
    /\ \E i, j \in DOMAIN WrittenRows :
          /\ WrittenRows[i].trend_eligible = <<TRUE>>
          /\ WrittenRows[j].trend_known = <<TRUE>>
          /\ WrittenRows[j].adj_close = WrittenRows[j].sma200
          /\ WrittenRows[j].trend_eligible = <<FALSE>>

\* The requested symbols that have rows in a cache tree.
SymbolsStored(files, cache, symbols) ==
    {symbols[k] : k \in {j \in DOMAIN symbols :
        \E p \in CachePaths(files, cache) : p[2] = symbols[j] /\ files[p] # <<>>}}

TrendCalled == res.stage = "trend"

\* C9 as stated: every requested symbol that has rows in the feature cache
\* gets trend rows in the output, whether or not the signal cache holds rows
\* of another requested symbol.
C9_EveryFeatureSymbolGetsRows ==
    TrendCalled =>
        \A s \in SymbolsStored(res.before, FEATURES, res.symbols) :
            /\ res.status = "ok"
            /\ \E i \in DOMAIN res.frame : res.frame[i].symbol = s

----------------------------------------------------------------------------
\* The indicator stage on one symbol's cleaned series.

\* The longest cleaned series.
MaxLen == 3

\* The longest configured period: one more than the longest series.
MaxPeriod == MaxLen + 1

\* A cleaned row of a real bar with every price equal to c.
CleanedBar(symbol, date, c, pulled) ==
    Row([symbol |-> symbol, date |-> date, open |-> F(c), high |-> F(c),
         low |-> F(c), close |-> F(c), adj_close |-> F(c), volume |-> F(10 * c),
         adjustment_factor |-> F(1), adjustment_method |-> <<"none">>,
         pulled_at_utc |-> pulled, is_outlier_jump |-> <<FALSE>>,
         is_missing_bar |-> <<FALSE>>])

\* The placeholder row calendar alignment writes for a missing bar.
MissingBar(symbol, date) ==
    Row([symbol |-> symbol, date |-> date, is_missing_bar |-> <<TRUE>>])

\* The cleaned series of a symbol: per date a bar at price 2 or 3, or a
\* missing bar (0).
CleanedSeries(symbol, prices) ==
    [d \in DOMAIN prices |->
        [cache |-> CLEANED, symbol |-> symbol, name |-> 0,
         row |-> IF prices[d] = 0 THEN MissingBar(symbol, d)
                 ELSE CleanedBar(symbol, d, prices[d], <<1>>)]]

PeriodNames ==
    {"sma200_period", "sma50_period", "ema20_period", "rsi14_period",
     "atr14_period", "rolling_high_period", "volume_sma50_period"}

\* The configurations tried: one period set to p, the others to q.
IndicatorConfigs ==
    {[f \in DOMAIN IndicatorConfig |->
         IF f = which THEN p
         ELSE IF f \in PeriodNames THEN q
         ELSE IF f = "include_volume_sma50" THEN inc
         ELSE IndicatorConfig[f]] :
        which \in PeriodNames, p \in 1..MaxPeriod, q \in 1..2, inc \in BOOLEAN}

InitIndicators ==
    /\ \E n \in 1..MaxLen : \E prices \in [1..n -> {0, 2, 3}] :
          fs = SeedFs(CleanedSeries(AAPL, prices))
    /\ reports = {}
    /\ clock = 1
    /\ runs = 0
    /\ client = [connected |-> FALSE]
    /\ res = Idle
    /\ prev = Idle
    /\ procs = <<>>

RunIndicators ==
    /\ runs < MaxRuns
    /\ \E config \in IndicatorConfigs : ComputeIndicators(<<AAPL>>, config)

NextIndicators == RunIndicators

SpecIndicators == InitIndicators /\ [][NextIndicators]_vars

IndicatorsDone == res.stage = "indicators" /\ res.status = "ok"

\* The indicator columns the configuration enables.
EnabledIndicators(config) ==
    {"sma200", "sma50", "ema20", "rsi14", "atr14", "rolling_high_20"}
        \cup (IF config.include_volume_sma50 THEN {"volume_sma50"} ELSE {})

AllIndicators ==
    {"sma200", "sma50", "ema20", "rsi14", "atr14", "rolling_high_20", "volume_sma50"}

\* The configured period of an indicator column.
PeriodOf(config, c) ==
    CASE c = "sma200" -> config.sma200_period
      [] c = "sma50" -> config.sma50_period
      [] c = "ema20" -> config.ema20_period
      [] c = "rsi14" -> config.rsi14_period
      [] c = "atr14" -> config.atr14_period
      [] c = "rolling_high_20" -> config.rolling_high_period
      [] c = "volume_sma50" -> config.volume_sma50_period

\* C4: in every feature row, indicator_ready is true iff the row is not a
\* missing bar and every enabled indicator column is non-null (volume_sma50
\* counts only when include_volume_sma50 is true); every row with
\* is_missing_bar true has all seven indicator columns null and
\* indicator_ready false.
C4_Readiness ==
    IndicatorsDone =>
        \A i \in DOMAIN WrittenRows :
            LET r == WrittenRows[i]
                missing == r.is_missing_bar = <<TRUE>>
            IN  /\ r.indicator_ready =
                      <<~missing /\ \A c \in EnabledIndicators(res.config) : NotNull(r[c])>>
                /\ missing =>
                      /\ \A c \in AllIndicators : IsNull(r[c])
                      /\ r.indicator_ready = <<FALSE>>

\* A ready row is written, and after it a missing bar whose indicators are
\* null.
C4_Witness ==
    /\ IndicatorsDone
    /\ \E i, j \in DOMAIN WrittenRows :
          /\ WrittenRows[i].indicator_ready = <<TRUE>>
          /\ WrittenRows[j].is_missing_bar = <<TRUE>>
          /\ WrittenRows[j].symbol = WrittenRows[i].symbol
          /\ WrittenRows[j].date > WrittenRows[i].date
          /\ IsNull(WrittenRows[j].ema20)

\* The number of rows of the symbol's series in the output.
SeriesLen(frame, symbol) == Cardinality({i \in DOMAIN frame : frame[i].symbol = symbol})

\* C5 as stated: for a symbol whose series has L rows and an indicator with
\* configured period P > L, the indicator is null in every row of the symbol
\* and indicator_ready is false in every row of the symbol.
C5_WarmupAnyIndicator ==
    IndicatorsDone =>
        \A c \in AllIndicators :
            \A i \in DOMAIN WrittenRows :
                LET r == WrittenRows[i]
                IN  PeriodOf(res.config, c) > SeriesLen(WrittenRows, r.symbol) =>
                        /\ IsNull(r[c])
                        /\ r.indicator_ready = <<FALSE>>

\* C5 amended: an indicator with configured period P > L is null in every
\* row of the symbol (the zero-loss rule writes no 100 into a warm-up row);
\* when that indicator is enabled (volume_sma50 is enabled only with
\* include_volume_sma50), indicator_ready is false in every row of the symbol.
C5_WarmupEnabledIndicator ==
    IndicatorsDone =>
        \A c \in AllIndicators :
            \A i \in DOMAIN WrittenRows :
                LET r == WrittenRows[i]
                IN  PeriodOf(res.config, c) > SeriesLen(WrittenRows, r.symbol) =>
                        /\ IsNull(r[c])
                        /\ c \in EnabledIndicators(res.config) =>
                              r.indicator_ready = <<FALSE>>

\* A rising series shorter than the RSI period: the average loss would be
\* zero, and the RSI stays null.
C5_Witness ==
    /\ IndicatorsDone
    /\ Len(WrittenRows) >= 2
    /\ res.config.rsi14_period > Len(WrittenRows)
    /\ \A i \in DOMAIN WrittenRows : \A j \in DOMAIN WrittenRows :
          WrittenRows[i].date < WrittenRows[j].date =>
              Gt(WrittenRows[j].adj_close, WrittenRows[i].adj_close)
    /\ \A i \in DOMAIN WrittenRows : IsNull(WrittenRows[i].rsi14)

----------------------------------------------------------------------------
\* The quality stage on a seeded normalized cache, called up to twice.

\* The quality calls of one behaviour.
MaxQualityRuns == 2

\* The rows seeded into the normalized cache.
MaxSourceRows == 2

\* A normalized row: v is <<open, high, low, close, pulled_at_utc>>.
SourceRow(symbol, date, v) ==
    Row([symbol |-> symbol, date |-> date, open |-> v[1], high |-> v[2],
         low |-> v[3], close |-> v[4], adj_close |-> v[4], volume |-> F(10),
         adjustment_factor |-> F(1), adjustment_method |-> <<"none">>,
         pulled_at_utc |-> v[5]])

SourceVariants ==
    {<<F(2), F(2), F(2), F(2), <<1>>>>,    \* a bar at 2
     <<F(3), F(3), F(3), F(3), <<2>>>>,    \* a bar at 3: a 50% jump after 2
     <<F(2), F(1), F(2), F(2), <<2>>>>}    \* high below open, low and close

SourceDates == 1..3

\* Rows of SPY at date 1 that break one rule of the validation each: a
\* negative volume, no volume, no adj_close, an adj_close of 0, and a low
\* above the open.
InvalidSourceRows ==
    LET bar == SourceRow(SPY, 1, <<F(2), F(2), F(2), F(2), <<1>>>>)
    IN  {With(bar, [volume |-> F(-1)]), With(bar, [volume |-> Null]),
         With(bar, [adj_close |-> Null]), With(bar, [adj_close |-> F(0)]),
         SourceRow(SPY, 1, <<F(2), F(3), F(3), F(3), <<1>>>>)}

SourceSeeds ==
    {[cache |-> NORMALIZED, symbol |-> s, name |-> n, row |-> SourceRow(s, d, v)] :
        s \in {SPY, AAPL}, d \in SourceDates, v \in SourceVariants, n \in {0, 1}}
    \cup {[cache |-> NORMALIZED, symbol |-> SPY, name |-> 0, row |-> r] :
              r \in InvalidSourceRows}

QualitySymbolLists == {<<SPY>>, <<AAPL, <<"s", "p", "y", " ">>>>, <<<<" ">>>>}

InitQuality ==
    /\ \E f \in SeqsUpTo(SourceSeeds, MaxSourceRows) : fs = SeedFs(f)
    /\ reports = {}
    /\ clock = 0
    /\ runs = 0
    /\ client = [connected |-> FALSE]
    /\ res = Idle
    /\ prev = Idle
    /\ procs = <<>>

RunQuality ==
    /\ runs < MaxQualityRuns
    /\ \E symbols \in QualitySymbolLists,
          threshold \in {NormalizationConfig.outlier_return_threshold, Rat(1, 2)} :
              Normalize(symbols, [NormalizationConfig EXCEPT
                                     !.outlier_return_threshold = threshold])

NextQuality == RunQuality \/ BoundedTick

SpecQuality == InitQuality /\ [][NextQuality]_vars

QualityDone == res.stage = "quality" /\ res.status = "ok"

\* The rows read back from the part files of one (symbol, year, month)
\* partition of a cache tree.
PartitionRows(files, cache, part) ==
    LET paths == SymbolFiles(files, cache, part[1])
        InPart(q) == q[3] = part[2]
        mine == SelectSeq(paths, InPart)
    IN  FlattenSeq([k \in DOMAIN mine |-> files[mine[k]]])

\* Two frames hold the same rows, each as many times.
SameRows(x, y) ==
    /\ Range(x) = Range(y)
    /\ \A r \in Range(x) :
          Cardinality({i \in DOMAIN x : x[i] = r})
              = Cardinality({i \in DOMAIN y : y[i] = r})

\* The quality stage ran twice in a row on the same symbols; the source
\* cache is the same, as the stage writes the cleaned cache only.
QualityTwice ==
    /\ QualityDone
    /\ prev.stage = "quality" /\ prev.status = "ok"
    /\ prev.symbols = res.symbols
    /\ \A q \in CachePaths(fs, NORMALIZED) :
          q \in DOMAIN prev.before /\ prev.before[q] = fs[q]

\* C2: running the quality stage twice on the same unchanged source cache
\* leaves each cleaned (symbol, year, month) partition holding one generation
\* of rows: the rows read back from the partition after the second run are
\* the rows read back after the first run, also when the two runs happen at
\* different clock seconds.
C2_QualityIdempotent ==
    QualityTwice =>
        \A part \in PartitionsOf(res.frame) :
            SameRows(PartitionRows(fs, CLEANED, part),
                     PartitionRows(res.before, CLEANED, part))

\* C3: with the calendar C the distinct dates of the rows that survive
\* deduplication and validation, the cleaned output of a quality run has
\* exactly one row for every requested symbol and every date of C and no
\* other row; a pair without a surviving source row has null prices, volume
\* and daily_return, is_outlier_jump null or false and is_missing_bar true;
\* a pair with a surviving source row has is_missing_bar false.
C3_CalendarAlignment ==
    QualityDone =>
        LET out == WrittenRows
            valid == res.steps.valid
            C == {valid[i].date : i \in DOMAIN valid}
        IN  /\ \A k \in DOMAIN res.symbols : \A d \in C :
                  Cardinality(RowsOn(out, res.symbols[k], d)) = 1
            /\ \A i \in DOMAIN out :
                  /\ InSymbols(out[i].symbol, res.symbols)
                  /\ out[i].date \in C
                  /\ IF RowsOn(valid, out[i].symbol, out[i].date) = {}
                     THEN /\ \A c \in {"open", "high", "low", "close", "adj_close",
                                       "volume", "daily_return"} : IsNull(out[i][c])
                          /\ out[i].is_outlier_jump \in {Null, <<FALSE>>}
                          /\ out[i].is_missing_bar = <<TRUE>>
                     ELSE out[i].is_missing_bar = <<FALSE>>

\* A quality run on two symbols with bars on different dates: the output has
\* a real row and a placeholder, and one row per symbol and date.
C3_Witness ==
    /\ QualityDone
    /\ Len(res.symbols) = 2
    /\ \E i, j \in DOMAIN WrittenRows :
          /\ WrittenRows[i].is_missing_bar = <<TRUE>>
          /\ WrittenRows[j].is_missing_bar = <<FALSE>>
          /\ WrittenRows[i].symbol # WrittenRows[j].symbol
          /\ WrittenRows[i].date = WrittenRows[j].date
    /\ Len(WrittenRows) = 4

----------------------------------------------------------------------------
\* The derived stages on caches that hold older part files and several rows
\* of a (symbol, date).

\* The rows seeded into each of the cleaned, feature and signal caches.
MaxDerivedRows == 2

DerivedCleanedSeeds ==
    {[cache |-> CLEANED, symbol |-> SPY, name |-> 0, row |-> r] :
        r \in {CleanedBar(SPY, 1, 2, <<1>>), CleanedBar(SPY, 1, 3, <<2>>),
               MissingBar(SPY, 1)}}

DerivedFeatureSeeds ==
    {[cache |-> FEATURES, symbol |-> SPY, name |-> n, row |-> FeatureRow(SPY, d, v)] :
        d \in {1, 3}, n \in {0, 1},
        v \in {<<F(3), F(2), F(3), <<1>>>>, <<F(2), F(2), F(3), <<2>>>>}}

DerivedSignalSeeds ==
    {[cache |-> SIGNALS, symbol |-> SPY, name |-> n,
      row |-> FeatureRow(SPY, 1, <<F(3), F(2), F(3), <<3>>>>)] : n \in {0, 1}}

\* write_mode: upsert_latest, or any other string.
WriteModes == {"upsert_latest", "append"}

\* Every period 1: an indicator is defined from the first bar on.
ShortIndicatorConfig ==
    [f \in DOMAIN IndicatorConfig |->
        IF f \in PeriodNames THEN 1 ELSE IndicatorConfig[f]]

InitDerived ==
    /\ \E c \in SeqsUpTo(DerivedCleanedSeeds, MaxDerivedRows),
          f \in SeqsUpTo(DerivedFeatureSeeds, MaxDerivedRows),
          g \in SeqsUpTo(DerivedSignalSeeds, MaxDerivedRows) :
              fs = SeedFs(c \o f \o g)
    /\ reports = {}
    /\ clock = 1
    /\ runs = 0
    /\ client = [connected |-> FALSE]
    /\ res = Idle
    /\ prev = Idle
    /\ procs = <<>>

DerivedIndicators ==
    /\ runs < MaxRuns
    /\ \E mode \in WriteModes :
          ComputeIndicators(<<SPY>>, [ShortIndicatorConfig EXCEPT !.write_mode = mode])

DerivedRegime ==
    /\ runs < MaxRuns
    /\ \E mode \in WriteModes :
          ApplyRegime(<<SPY>>, [RegimeConfig EXCEPT !.write_mode = mode])

DerivedTrend ==
    /\ runs < MaxRuns
    /\ \E mode \in WriteModes :
          ApplyTrend(<<SPY>>, [TrendConfig EXCEPT !.write_mode = mode])

NextDerived == DerivedIndicators \/ DerivedRegime \/ DerivedTrend

SpecDerived == InitDerived /\ [][NextDerived]_vars

\* The last call was one of the indicator, regime or trend stage and wrote.
DerivedDone ==
    /\ res.stage \in {"indicators", "regime", "trend"}
    /\ res.status = "ok"

\* The part files of a (symbol, year, month) partition of a cache tree.
PartFiles(files, cache, part) ==
    {q \in DOMAIN files : q[1] = cache /\ q[2] = part[1] /\ q[3] = part[2]}

\* C1: after the indicator, regime or trend stage finishes a write with
\* write_mode upsert_latest, every (symbol, year, month) partition it wrote
\* holds exactly one part file, with the newly computed rows of the partition
\* only; no part file the partition held before the run is left, whatever
\* their number.
C1_UpsertLatest ==
    DerivedDone /\ res.config.write_mode = "upsert_latest" =>
        \A part \in PartitionsOf(res.frame) :
            LET here == PartFiles(fs, res.config.output_dir, part)
            IN  /\ Cardinality(here) = 1
                /\ here \subseteq res.files
                /\ \A q \in here : fs[q] = Chunk(res.frame, part)
                /\ \A q \in PartFiles(res.before, res.config.output_dir, part) :
                      q \notin DOMAIN fs \/ (q \in res.files /\ q[4] = clock)

\* An upsert into a partition that held two part files, one of them from an
\* earlier second.
C1_Witness ==
    /\ DerivedDone
    /\ res.config.write_mode = "upsert_latest"
    /\ \E part \in PartitionsOf(res.frame) :
          /\ Cardinality(PartFiles(res.before, res.config.output_dir, part)) = 2
          /\ Cardinality(PartFiles(fs, res.config.output_dir, part)) = 1

\* The columns a derived stage copies from its input rows.
SourceColumns ==
    {"symbol", "date", "open", "high", "low", "close", "volume", "adj_close",
     "pulled_at_utc", "is_missing_bar"}

\* The row of the set pulled later than every other row of the set, if any.
Latest(rows) ==
    {r \in rows : \A q \in rows \ {r} : q.pulled_at_utc[1] < r.pulled_at_utc[1]}

----------------------------------------------------------------------------
\* Ingestion against a scripted broker.

\* A bar of the broker with every price equal to c, and one without prices.
Bar(date, c) ==
    [date |-> date, open |-> F(c), high |-> F(c), low |-> F(c), close |-> F(c),
     volume |-> F(10)]

NullBar(date) ==
    [date |-> date, open |-> Null, high |-> Null, low |-> Null, close |-> Null,
     volume |-> Null]

Ok(bars) == [ok |-> TRUE, bars |-> bars]

Fail == [ok |-> FALSE, error |-> "IBKR historical data request failed"]

Timeout == [ok |-> FALSE, error |-> "IBKR historical data request timed out"]

\* What the broker answers on the primary stream of the first symbol.
RawScripts ==
    {<<Ok(<<Bar(1, 100), Bar(2, 110)>>)>>,
     <<Fail, Ok(<<Bar(1, 100)>>)>>,
     <<Fail>>,
     <<Ok(<<>>)>>,
     <<Ok(<<NullBar(1)>>)>>,
     <<Timeout, Fail, Ok(<<Bar(1, 100)>>)>>,
     <<Ok(<<Bar(1, 100), Bar(1, 101)>>)>>,
     <<Ok(<<Bar(1, 0)>>)>>}

\* What it answers on the adjusted stream of the first symbol.
AdjScripts ==
    {<<Ok(<<Bar(1, 50), Bar(2, 55)>>)>>,
     <<Fail>>,
     <<Fail, Fail, Ok(<<Bar(1, 50)>>)>>,
     <<Ok(<<>>)>>,
     <<Ok(<<Bar(3, 50)>>)>>,
     <<Ok(<<NullBar(1)>>)>>,
     <<Timeout, Fail>>,
     <<Ok(<<Bar(1, 0)>>)>>,
     <<Ok(<<Bar(1, -50)>>)>>,
     <<Ok(<<Bar(1, 50), Bar(1, 60), Bar(2, 55)>>)>>}

\* The scripts of the broker: per symbol and stream, the successive answers.
BrokerScripts ==
    {(<<SPY, "TRADES">> :> raw) @@ (<<SPY, "ADJUSTED_LAST">> :> adj)
        @@ (<<AAPL, "TRADES">> :> other_raw) @@ (<<AAPL, "ADJUSTED_LAST">> :> other_adj) :
        raw \in RawScripts, adj \in AdjScripts,
        other_raw \in {<<Ok(<<Bar(1, 100)>>)>>, <<Fail>>},
        other_adj \in {<<Ok(<<Bar(1, 50)>>)>>, <<Fail>>}}

\* The scripts of a broker that refuses the connection: it is never asked
\* for bars, so one script stands for all.
RefusedScripts ==
    {s \in BrokerScripts :
        /\ s[<<SPY, "TRADES">>] = <<Fail>> /\ s[<<SPY, "ADJUSTED_LAST">>] = <<Fail>>
        /\ s[<<AAPL, "TRADES">>] = <<Fail>> /\ s[<<AAPL, "ADJUSTED_LAST">>] = <<Fail>>}

IngestSymbolLists ==
    {<<SPY>>, <<<<" ", "s", "p", "y">>, AAPL>>, <<<<" ">>>>,
     <<SPY, <<"s", "p", "y">>>>}

IngestionConfigs ==
    {[DailyIngestionConfig EXCEPT !.max_retries = m] :
        m \in {0, 2, DailyIngestionConfig.max_retries}}

InitIngest ==
    /\ fs = SeedFs(<<>>)
    /\ reports = {}
    /\ clock = 0
    /\ runs = 0
    /\ client \in {[connected |-> b] : b \in BOOLEAN}
    /\ res = Idle
    /\ prev = Idle
    /\ procs = <<>>

RunIngest ==
    /\ runs < MaxRuns
    /\ \E symbols \in IngestSymbolLists, config \in IngestionConfigs,
          auto_connect \in BOOLEAN, script \in BrokerScripts,
          elapsed \in {<<0, 0>>, <<1, 1>>} :
              \/ Ingest(symbols, config, auto_connect, script, elapsed, TRUE)
              \/ /\ script \in RefusedScripts /\ elapsed = <<0, 0>>
                 /\ Ingest(symbols, config, auto_connect, script, elapsed, FALSE)

NextIngest == RunIngest \/ BoundedTick

SpecIngest == InitIngest /\ [][NextIngest]_vars

\* The last call was an ingestion run that returned.
IngestDone == res.stage = "ingestion" /\ res.status = "ok"

\* C10: when the adjusted-stream request of a symbol fails after its retries
\* or returns no bars while the primary stream has bars, the symbol succeeds,
\* every normalized row of it has adj_close = close and adjustment_factor 1,
\* its adjustment_method is none, and its result holds exactly one warning.
C10_AdjustmentFallback ==
    IngestDone =>
        /\ \A i \in DOMAIN res.trace :
              res.trace[i].adj_calls > 0 =>
                  /\ ~res.trace[i].raised
                  /\ \E k \in DOMAIN res.results :
                        res.results[k].symbol = res.trace[i].symbol
        /\ \A k \in DOMAIN res.results :
              LET r == res.results[k]
              IN  r.adj_raised \/ r.adj_bars = <<>> =>
                      /\ r.rows # <<>>
                      /\ \A j \in DOMAIN r.rows :
                            /\ r.rows[j].adj_close = r.rows[j].close
                            /\ r.rows[j].adjustment_factor = F(1)
                            /\ r.rows[j].adjustment_method = <<"none">>
                      /\ r.adjustment_method = "none"
                      /\ Len(r.warnings) = 1

\* Raw closes 100 and 110 and an adjusted request that fails on every retry:
\* the symbol succeeds with two rows and one warning.
C10_Witness ==
    /\ IngestDone
    /\ \E k \in DOMAIN res.results :
          /\ res.results[k].adj_raised
          /\ Len(res.results[k].rows) = 2
          /\ res.results[k].rows[2].adj_close = F(110)
          /\ Len(res.results[k].warnings) = 1
    /\ \E i \in DOMAIN res.trace :
          /\ res.trace[i].adj_calls = res.config.max_retries
          /\ ~res.trace[i].raised

\* One request of the run, on `key` after `served` earlier calls on it, kept
\* its retry budget: every call before the last one failed, the last one
\* either succeeded or was call number max_retries and its error was raised,
\* and a sleep separates two successive calls only.
RetryBudgetKept(key, served, calls, sleeps, raised, error) ==
    LET budget == res.config.max_retries
        last == Outcome(res.broker, key, served + calls)
    IN  /\ calls <= IF budget > 0 THEN budget ELSE 0
        /\ \A j \in 1..(calls - 1) : ~Outcome(res.broker, key, served + j).ok
        /\ calls > 0 => IF last.ok THEN ~raised
                        ELSE calls = budget /\ raised /\ error = last.error
        /\ calls = 0 => ~raised
        /\ sleeps = IF calls = 0 THEN 0 ELSE calls - 1

RequestsKeepBudget ==
    \A i \in DOMAIN res.trace :
        LET t == res.trace[i]
            raw_key == <<t.symbol, res.config.what_to_show_raw>>
            adj_key == <<t.symbol, res.config.what_to_show_adjusted>>
        IN  /\ RetryBudgetKept(raw_key, t.served[raw_key], t.raw_calls,
                               t.raw_sleeps, t.raw_raised, t.raw_error)
            /\ t.raw_calls = 0 => res.config.max_retries <= 0
            /\ RetryBudgetKept(adj_key, t.served[adj_key], t.adj_calls,
                               t.adj_sleeps, t.adj_raised, t.adj_error)

\* C11 as stated: every bar request calls the broker until the first call
\* that succeeds and at most max_retries times, sleeps between two attempts
\* only, and when all its calls fail the error of the last call is raised and
\* the symbol is recorded as failed; for the request of either stream.
C11_RetryBudgetAnyStream ==
    IngestDone =>
        /\ RequestsKeepBudget
        /\ \A i \in DOMAIN res.trace :
              res.trace[i].raw_raised \/ res.trace[i].adj_raised =>
                  /\ res.trace[i].raised
                  /\ res.trace[i].symbol \in DOMAIN res.failures

\* C11, amended: every bar request calls the broker until the first call
\* that succeeds and at most max_retries times, sleeps between two attempts
\* only, and when all its calls fail the error of the last call is raised;
\* when it is the request of the primary stream the symbol is recorded as
\* failed with that error, and when it is the request of the adjusted stream
\* the symbol succeeds with a warning.
C11_RetryBudget ==
    IngestDone =>
        /\ RequestsKeepBudget
        /\ \A i \in DOMAIN res.trace :
              res.trace[i].raw_raised =>
                  /\ res.trace[i].raised
                  /\ res.trace[i].error = res.trace[i].raw_error
                  /\ res.trace[i].symbol \in DOMAIN res.failures
        /\ \A i \in DOMAIN res.trace :
              res.trace[i].adj_raised =>
                  /\ ~res.trace[i].raised
                  /\ \E k \in DOMAIN res.results :
                        /\ res.results[k].symbol = res.trace[i].symbol
                        /\ Len(res.results[k].warnings) = 1

\* Two retries allowed and a primary stream that times out and then fails:
\* two calls, one sleep, and the symbol failed with the error of the second
\* call.
C11_Witness ==
    /\ IngestDone
    /\ res.config.max_retries = 2
    /\ \E i \in DOMAIN res.trace :
          LET t == res.trace[i]
              raw_key == <<t.symbol, res.config.what_to_show_raw>>
          IN  /\ t.raw_calls = 2 /\ t.raw_sleeps = 1 /\ t.raw_raised
              /\ Outcome(res.broker, raw_key, t.served[raw_key] + 1) = Timeout
              /\ t.raw_error = Fail.error
              /\ res.failures[t.symbol] = Fail.error

\* The symbols of the results of the run.
ResultSymbols == {res.results[k].symbol : k \in DOMAIN res.results}

\* Pass number i of the per-symbol loop failed.
FailedPass(i) == res.trace[i].raised

\* C12: an error on one symbol is recorded under that symbol in the failures
\* map and does not abort the run, every symbol after it in the list is still
\* attempted, and a failed symbol has no entry in the results.
C12_FailureIsolation ==
    IngestDone =>
        /\ res.status = "ok"
        /\ Len(res.trace) = Len(res.symbols)
        /\ \A i \in DOMAIN res.trace :
              /\ res.trace[i].symbol = res.symbols[i]
              /\ FailedPass(i) => res.trace[i].symbol \in DOMAIN res.failures
        /\ DOMAIN res.failures \cap ResultSymbols = {}

\* C13: a run returns its result and writes metadata.json even when every
\* symbol fails; the requested symbols are the trimmed, uppercased and
\* deduplicated input, symbols_succeeded + symbols_failed =
\* symbols_requested, every requested symbol is in exactly one of results
\* and failures, and when all of them fail the counts are 0 and
\* symbols_requested.
C13_RunAccounting ==
    IngestDone =>
        /\ res.status = "ok"
        /\ <<res.run_id, "metadata.json">> \in reports
        /\ \A i, j \in DOMAIN res.symbols :
              res.symbols[i] = res.symbols[j] => i = j
        /\ res.symbols_succeeded + res.symbols_failed = res.symbols_requested
        /\ \A i \in DOMAIN res.symbols :
              (res.symbols[i] \in ResultSymbols)
                  # (res.symbols[i] \in DOMAIN res.failures)
        /\ (\A i \in DOMAIN res.trace : FailedPass(i)) =>
              /\ res.symbols_succeeded = 0
              /\ res.symbols_failed = res.symbols_requested

\* The dates of the bars that have a date and every price.
ValidBarDates(bars) ==
    {bars[i].date : i \in {j \in DOMAIN bars :
        /\ NotNull(bars[j].open) /\ NotNull(bars[j].high)
        /\ NotNull(bars[j].low) /\ NotNull(bars[j].close)}}

\* C14: the row_count of every succeeded symbol, and the number of
\* normalized rows written for it, is the number of bars of the primary
\* stream after validation and deduplication by date.
C14_RowCount ==
    IngestDone =>
        \A k \in DOMAIN res.results :
            LET r == res.results[k]
            IN  /\ r.row_count = Cardinality(ValidBarDates(r.raw_bars))
                /\ Len(r.rows) = r.row_count

\* C15: a stage called with a symbol list that is empty once the blank
\* entries are dropped fails with an error, and has written no cache part
\* file and no report.
C15_EmptySymbolList ==
    res.stage # "none" /\ res.symbols = <<>> =>
        /\ res.status = "error"
        /\ fs = res.before
        /\ \A r \in reports : r[1] # res.run_id

\* The call was apply_market_regime_filter on a feature cache without any
\* row of the benchmark symbol.
BenchmarkMissing ==
    /\ res.stage = "regime"
    /\ res.symbols # <<>>
    /\ read_frames(res.before, res.config.source_dir,
                   <<normalize_symbol(res.config.benchmark_symbol)>>) = <<>>

\* C16: when the benchmark symbol has no rows in the feature cache,
\* apply_market_regime_filter raises, also when the requested symbols have
\* feature rows, and every cache file and the reports are as before the call.
C16_BenchmarkMissing ==
    BenchmarkMissing =>
        /\ res.status = "error"
        /\ fs = res.before
        /\ \A r \in reports : r[1] # res.run_id

\* AAPL has feature rows, SPY has none, and the signal cache holds a part
\* file of AAPL: the call fails and the part file is still there.
C16_Witness ==
    /\ BenchmarkMissing
    /\ res.symbols = <<AAPL>>
    /\ read_frames(res.before, res.config.source_dir, <<AAPL>>) # <<>>
    /\ read_frames(res.before, res.config.output_dir, <<AAPL>>) # <<>>
    /\ res.status = "error"
    /\ read_frames(fs, res.config.output_dir, <<AAPL>>)
           = read_frames(res.before, res.config.output_dir, <<AAPL>>)

----------------------------------------------------------------------------
\* Successive ingestion runs on one cache.

\* The ingestion runs of one behaviour.
MaxAppendRuns == 2

\* The broker of a run: SPY answers one bar, bars of two months, or fails.
AppendScripts ==
    {(<<SPY, "TRADES">> :> raw) @@ (<<SPY, "ADJUSTED_LAST">> :> <<Ok(<<Bar(1, 50)>>)>>)
        @@ (<<AAPL, "TRADES">> :> <<Ok(<<Bar(1, 100)>>)>>)
        @@ (<<AAPL, "ADJUSTED_LAST">> :> <<Fail>>) :
        raw \in {<<Ok(<<Bar(1, 100)>>)>>, <<Ok(<<Bar(2, 110), Bar(3, 120)>>)>>,
                 <<Fail>>}}

RunAppend ==
    /\ runs < MaxAppendRuns
    /\ \E symbols \in {<<SPY>>, <<AAPL, SPY>>}, script \in AppendScripts,
          elapsed \in {<<0, 0>>, <<1, 0>>} :
              Ingest(symbols, DailyIngestionConfig, TRUE, script, elapsed, TRUE)

NextAppend == RunAppend \/ BoundedTick

SpecAppend == InitIngest /\ [][NextAppend]_vars

\* The number of writes of the run to the partition.
WritesTo(run, part) ==
    IF run.stage # "ingestion" THEN 0
    ELSE Cardinality({k \in DOMAIN run.results :
             \E q \in run.results[k].normalized_files :
                 q[2] = part[1] /\ q[3] = part[2]})

IngestedPartitions ==
    {<<q[2], q[3]>> : q \in DOMAIN fs}

\* C17: an ingestion run leaves every part file it found present and
\* unchanged, every part file it reports is a new one, and a partition of
\* the raw and of the normalized cache holds as many part files as there
\* were ingestion writes to it.
C17_AppendOnly ==
    IngestDone =>
        /\ \A q \in DOMAIN res.before :
              q \in DOMAIN fs /\ fs[q] = res.before[q]
        /\ \A k \in DOMAIN res.results :
              res.results[k].normalized_files \cap DOMAIN res.before = {}
        /\ \A part \in IngestedPartitions :
              \A cache \in {res.config.raw_cache_dir,
                             res.config.normalized_cache_dir} :
                  Cardinality(PartFiles(fs, cache, part))
                      = WritesTo(prev, part) + WritesTo(res, part)

----------------------------------------------------------------------------
\* The two signal filters run one after the other with their default
\* configurations.

\* The filter calls of one behaviour.
MaxPipelineRuns == 2

PipelineRegime ==
    /\ runs < MaxPipelineRuns
    /\ \E symbols \in {<<AAPL>>, <<SPY, AAPL>>} : ApplyRegime(symbols, RegimeConfig)

PipelineTrend ==
    /\ runs < MaxPipelineRuns
    /\ \E symbols \in {<<AAPL>>, <<SPY, AAPL>>} : ApplyTrend(symbols, TrendConfig)

NextPipeline == PipelineRegime \/ PipelineTrend \/ BoundedTick

SpecPipeline == InitSignals /\ [][NextPipeline]_vars

\* The last two calls were of two different stages and both wrote.
TwoStagesWrote ==
    /\ prev.stage \in {"regime", "trend"} /\ prev.status = "ok"
    /\ res.stage \in {"regime", "trend"} /\ res.status = "ok"
    /\ prev.stage # res.stage

\* C18: two stages run with their default configurations write into
\* different cache trees, and the later one leaves every part file the
\* earlier one wrote present with its content.
C18_StageOwnership ==
    TwoStagesWrote =>
        /\ {q[1] : q \in prev.files} \cap {q[1] : q \in res.files} = {}
        /\ \A q \in prev.files :
              q \in DOMAIN fs /\ fs[q] = res.before[q]

\* C19: every normalized row ingestion writes has a finite, strictly
\* positive adjustment_factor, whatever closes the broker returns.
C19_PositiveAdjustmentFactor ==
    IngestDone =>
        \A k \in DOMAIN res.results :
            \A j \in DOMAIN res.results[k].rows :
                /\ NotNull(res.results[k].rows[j].adjustment_factor)
                /\ Gt(res.results[k].rows[j].adjustment_factor, F(0))

----------------------------------------------------------------------------
\* The deduplication step of the quality stage.

\* The (symbol, date) key of a source row, the symbol as _prepare_types
\* leaves it.
SourceKey(r) == <<normalize_symbol(r.symbol), r.date>>

SourceKeys == {SourceKey(res.steps.source[i]) : i \in DOMAIN res.steps.source}

\* The position in the source of the last row with the key.
LastWithKey(key) ==
    CHOOSE i \in DOMAIN res.steps.source :
        /\ SourceKey(res.steps.source[i]) = key
        /\ \A j \in DOMAIN res.steps.source :
              SourceKey(res.steps.source[j]) = key => j <= i

\* C20: the deduplication step keeps, of the source rows with one (symbol,
\* date) key, the one that comes last in the order they were read, whatever
\* their pulled_at_utc; its output has one row per key, and
\* duplicate_rows_removed is the number of source rows minus the number of
\* keys.
C20_QualityDedupKeepsLast ==
    QualityDone =>
        /\ Len(res.steps.deduped) = Cardinality(SourceKeys)
        /\ \A key \in SourceKeys :
              \E i \in DOMAIN res.steps.deduped :
                  res.steps.deduped[i]
                      = prepare_types(<<res.steps.source[LastWithKey(key)]>>)[1]
        /\ res.quality_summary.duplicate_rows_removed
              = Len(res.steps.source) - Cardinality(SourceKeys)

\* Two source rows of one key in two part files, the one read last pulled
\* earlier than the other: the one read last is kept and one row is counted
\* as removed.
C20_Witness ==
    /\ QualityDone
    /\ Cardinality(DOMAIN res.before) = 2
    /\ Len(res.steps.source) = 2
    /\ SourceKey(res.steps.source[1]) = SourceKey(res.steps.source[2])
    /\ res.steps.source[1].pulled_at_utc = <<2>>
    /\ res.steps.source[2].pulled_at_utc = <<1>>
    /\ res.steps.deduped = <<res.steps.source[2]>>
    /\ res.quality_summary.duplicate_rows_removed = 1

----------------------------------------------------------------------------
\* The validation step of the quality stage.

\* A cell holds a number that is at least the number of the other cell.
AtLeast(x, y) == x[1] * y[2] >= y[1] * x[2]

\* The row has every required field (its date is a day number, never
\* null), positive prices, a volume that is not negative, a high that is at
\* least every other price and a low that is at most every other price.
RowIsValid(r) ==
    /\ \A c \in {"symbol", "open", "high", "low", "close",
                  "adj_close", "volume"} : Len(r[c]) > 0
    /\ \A c \in {"open", "high", "low", "close", "adj_close"} :
          r[c][1] > 0 /\ r[c][2] > 0
    /\ r.volume[1] >= 0
    /\ \A c \in {"open", "close", "low"} : AtLeast(r.high, r[c])
    /\ \A c \in {"open", "close", "high"} : AtLeast(r[c], r.low)

\* C21: the validation step keeps a deduplicated row exactly when its
\* required fields are not null, its prices are positive, its volume is not
\* negative, its high is at least its open, close and low, and its low is at
\* most its open, close and high; the rows kept are unchanged and in order,
\* and invalid_rows_removed is the number of rows dropped.
C21_Validation ==
    QualityDone =>
        /\ res.steps.valid = SelectSeq(res.steps.deduped, RowIsValid)
        /\ res.quality_summary.invalid_rows_removed
              = Len(res.steps.deduped) - Len(res.steps.valid)

\* A valid row and a row with an adj_close of 0 after deduplication: the
\* first is kept, the second dropped and counted.
C21_Witness ==
    /\ QualityDone
    /\ Len(res.steps.deduped) = 2
    /\ \E i \in DOMAIN res.steps.deduped :
          res.steps.deduped[i].adj_close = F(0)
    /\ Len(res.steps.valid) = 1
    /\ res.steps.valid[1].adj_close = F(2)
    /\ res.quality_summary.invalid_rows_removed = 1

----------------------------------------------------------------------------
\* The outlier step of the quality stage.

\* The positions in the flagged frame of the rows of the symbol of row i
\* with an earlier date.
EarlierRows(i) ==
    {j \in DOMAIN res.steps.flagged :
        /\ res.steps.flagged[j].symbol = res.steps.flagged[i].symbol
        /\ res.steps.flagged[j].date < res.steps.flagged[i].date}

\* The position of the previous surviving row of the symbol of row i.
PreviousRow(i) ==
    CHOOSE j \in EarlierRows(i) :
        \A k \in EarlierRows(i) :
            res.steps.flagged[k].date <= res.steps.flagged[j].date

\* |adj_close / previous adj_close - 1| of row i exceeds the threshold t:
\* with a = n1/d1 and b = n2/d2 positive, |a/b - 1| > tn/td iff
\* |n1*d2 - n2*d1| * td > tn * n2 * d1.
JumpExceeds(i, t) ==
    LET a == res.steps.flagged[i].adj_close
        b == res.steps.flagged[PreviousRow(i)].adj_close
    IN  Abs(a[1] * b[2] - b[1] * a[2]) * t[2] > t[1] * b[1] * a[2]

FlaggedPositions ==
    {i \in DOMAIN res.steps.flagged :
        res.steps.flagged[i].is_outlier_jump = <<TRUE>>}

\* C22: a row is flagged as an outlier jump exactly when its symbol has an
\* earlier surviving row and |adj_close / previous adj_close - 1| is
\* strictly above the threshold; the step keeps every valid row, and
\* outlier_rows_flagged is the number of flagged rows; the cleaned rows
\* carry the flags.
C22_OutlierFlags ==
    QualityDone =>
        /\ Len(res.steps.flagged) = Len(res.steps.valid)
        /\ \A r \in Range(res.steps.valid) :
              \E i \in DOMAIN res.steps.flagged :
                  With(res.steps.flagged[i],
                       [daily_return |-> r.daily_return,
                        is_outlier_jump |-> r.is_outlier_jump]) = r
        /\ \A i \in DOMAIN res.steps.flagged :
              (i \in FlaggedPositions)
                  <=> /\ EarlierRows(i) # {}
                      /\ JumpExceeds(i, res.config.outlier_return_threshold)
        /\ res.quality_summary.outlier_rows_flagged = Cardinality(FlaggedPositions)
        /\ \A i \in DOMAIN res.frame :
              res.frame[i].is_outlier_jump = <<TRUE>> =>
                  \E k \in FlaggedPositions :
                      /\ res.steps.flagged[k].symbol = res.frame[i].symbol
                      /\ res.steps.flagged[k].date = res.frame[i].date
        /\ \A k \in FlaggedPositions :
              \E i \in DOMAIN res.frame :
                  /\ res.frame[i].symbol = res.steps.flagged[k].symbol
                  /\ res.frame[i].date = res.steps.flagged[k].date
                  /\ res.frame[i].is_outlier_jump = <<TRUE>>

\* Threshold 0.20 and adj_close 3 then 2, a return of -1/3: the second row
\* is flagged.
C22_Witness ==
    /\ QualityDone
    /\ res.config.outlier_return_threshold = Rat(20, 100)
    /\ Len(res.steps.flagged) = 2
    /\ res.steps.flagged[1].adj_close = F(3)
    /\ res.steps.flagged[2].adj_close = F(2)
    /\ FlaggedPositions = {2}
    /\ res.quality_summary.outlier_rows_flagged = 1

----------------------------------------------------------------------------
\* Stage runs side by side. A run is a process: it reads its source cache
\* and computes its output frame, then for each (symbol, year, month) group
\* of the frame, in sorted order, unlinks the part files of the target
\* directory and creates the new part file, as two filesystem operations;
\* the steps of two runs interleave.

StageConfig(stage) ==
    CASE stage = "quality" -> NormalizationConfig
      [] stage = "indicators" -> ShortIndicatorConfig
      [] stage = "regime" -> RegimeConfig
      [] stage = "trend" -> TrendConfig

StageOutput(stage) ==
    IF stage = "quality" THEN StageConfig(stage).cleaned_dir
    ELSE StageConfig(stage).output_dir

StageReport(stage) ==
    CASE stage = "quality" -> "normalization_report.json"
      [] stage = "indicators" -> "indicators_report.json"
      [] stage = "regime" -> "regime_report.json"
      [] stage = "trend" -> "trend_report.json"

\* The stage raises before it writes anything.
stage_raises(stage, files, requested) ==
    LET config == StageConfig(stage)
    IN  \/ requested = <<>>
        \/ /\ stage = "indicators"
           /\ read_frames(files, config.source_dir, requested) = <<>>
        \/ /\ stage = "regime"
           /\ LET benchmark_symbol == normalize_symbol(config.benchmark_symbol)
                  features == read_frames(files, config.source_dir,
                                  regime_read_symbols(requested, benchmark_symbol))
              IN  \/ features = <<>>
                  \/ build_regime_table(dedupe_latest(features), benchmark_symbol) = <<>>
        \/ /\ stage = "trend"
           /\ trend_read_source_frames(files, config, requested) = <<>>

\* The frame the stage hands to its _write_partitioned_parquet.
stage_frame(stage, files, requested) ==
    CASE stage = "quality" ->
             quality_steps(files, StageConfig(stage), requested).aligned
      [] stage = "indicators" ->
             indicator_features(files, StageConfig(stage), requested)
      [] stage = "regime" -> regime_merged(files, StageConfig(stage), requested)
      [] stage = "trend" -> trend_flagged(files, StageConfig(stage), requested)

\* The groups of dated.groupby(["symbol", "year", "month"], sort=True), in
\* order.
sorted_partitions(frame) ==
    Bind(SymbolsIn(frame), LAMBDA symbols :
        FlattenSeq([i \in DOMAIN symbols |->
            Bind(SortedInts({part[2] : part \in
                                {q \in PartitionsOf(frame) : q[1] = symbols[i]}}),
                 LAMBDA months :
                     [k \in DOMAIN months |-> <<symbols[i], months[k]>>])]))

\* An unlink that globs the whole output tree instead of the target
\* directory of one (symbol, year, month).
unlink_existing_whole_cache(files, stage, part) ==
    [q \in {r \in DOMAIN files : r[1] # StageOutput(stage)} |-> files[q]]

\* The files left by a write that creates the new part file without
\* unlinking the old ones first.
unlink_existing_kept(files, stage, part) ==
    files

\* for existing in target_dir.glob("*.parquet"): existing.unlink(), done by
\* the derived stages under upsert_latest; the quality stage never unlinks.
unlink_existing(files, stage, part) ==
    LET config == StageConfig(stage)
        gone == IF "write_mode" \in DOMAIN config
                      /\ config.write_mode = "upsert_latest"
                THEN ExistingIn(files, StageOutput(stage), {part}) ELSE {}
    IN  [q \in DOMAIN files \ gone |-> files[q]]

\* chunk.to_parquet(target_dir / part-<timestamp>.parquet)
create_part(files, stage, part, frame, now) ==
    LET made == <<StageOutput(stage), part[1], part[2], now>>
    IN  [q \in DOMAIN files \cup {made} |->
            IF q = made THEN Chunk(frame, part) ELSE files[q]]

\* A run that has not started: its stage and symbols, and the cache at the
\* start of the behaviour.
NewProc(stage, symbols, origin) ==
    [pc |-> "idle", stage |-> stage, symbols |-> symbols, frame |-> <<>>,
     pending |-> <<>>, now |-> 0, origin |-> origin]

\* The run reads its source cache and computes its frame, or raises.
ProcRead(p) ==
    LET me == procs[p]
        requested == requested_symbols_of(me.symbols)
    IN  /\ me.pc = "idle"
        /\ IF stage_raises(me.stage, fs, requested)
           THEN /\ procs' = [procs EXCEPT ![p].pc = "error"]
                /\ UNCHANGED reports
           ELSE \E frame \in {stage_frame(me.stage, fs, requested)} :
                /\ procs' = [procs EXCEPT ![p] =
                                 [me EXCEPT !.pc = IF frame = <<>> THEN "done"
                                                   ELSE "unlink",
                                            !.frame = frame,
                                            !.pending = sorted_partitions(frame),
                                            !.now = clock]]
                /\ reports' = IF frame = <<>>
                              THEN reports \cup {<<p, StageReport(me.stage)>>}
                              ELSE reports
        /\ UNCHANGED <<fs, clock, runs, client, res, prev>>

\* The run unlinks the part files of the next target directory.
ProcUnlink(p) ==
    LET me == procs[p]
    IN  /\ me.pc = "unlink"
        /\ fs' = unlink_existing(fs, me.stage, Head(me.pending))
        /\ procs' = [procs EXCEPT ![p].pc = "create"]
        /\ UNCHANGED <<reports, clock, runs, client, res, prev>>

\* The run creates the part file of that directory; after the last one it
\* writes its report and returns.
ProcCreate(p) ==
    LET me == procs[p]
        last == Len(me.pending) = 1
    IN  /\ me.pc = "create"
        /\ fs' = create_part(fs, me.stage, Head(me.pending), me.frame, me.now)
        /\ procs' = [procs EXCEPT ![p] =
                         [me EXCEPT !.pc = IF last THEN "done" ELSE "unlink",
                                    !.pending = Tail(me.pending)]]
        /\ reports' = IF last THEN reports \cup {<<p, StageReport(me.stage)>>}
                      ELSE reports
        /\ UNCHANGED <<clock, runs, client, res, prev>>

\* The seed rows of one behaviour.
MaxParallelRows == 2

\* One row of SPY at date 1 and of AAPL at dates 1 and 3 in the caches the
\* stages read, and an older part file in the caches they write.
ParallelSeeds ==
    {[cache |-> NORMALIZED, symbol |-> SPY, name |-> 0,
      row |-> SourceRow(SPY, 1, <<F(2), F(2), F(2), F(2), <<1>>>>)],
     [cache |-> NORMALIZED, symbol |-> AAPL, name |-> 0,
      row |-> SourceRow(AAPL, 3, <<F(2), F(2), F(2), F(2), <<1>>>>)],
     [cache |-> CLEANED, symbol |-> SPY, name |-> 0,
      row |-> CleanedBar(SPY, 1, 2, <<1>>)],
     [cache |-> CLEANED, symbol |-> AAPL, name |-> 0,
      row |-> CleanedBar(AAPL, 1, 2, <<1>>)]}
    \cup {[cache |-> c, symbol |-> s, name |-> 0,
           row |-> FeatureRow(s, 1, <<F(3), F(2), F(3), <<1>>>>)] :
              c \in {FEATURES, SIGNALS}, s \in {SPY, AAPL}}

Stages == {"quality", "indicators", "regime", "trend"}

\* Two runs of one stage, over SPY and over AAPL.
InitParallel ==
    /\ \E seed \in SeqsUpTo(ParallelSeeds, MaxParallelRows) : fs = SeedFs(seed)
    /\ reports = {}
    /\ clock = 1
    /\ runs = 0
    /\ client = [connected |-> FALSE]
    /\ res = Idle
    /\ prev = Idle
    /\ \E stage \in Stages :
          procs = <<NewProc(stage, <<SPY>>, fs), NewProc(stage, <<AAPL>>, fs)>>

NextParallel ==
    \E p \in DOMAIN procs : ProcRead(p) \/ ProcUnlink(p) \/ ProcCreate(p)

SpecParallel == InitParallel /\ [][NextParallel]_vars

----------------------------------------------------------------------------
\* The window of upsert_latest

\* The stage of the run replaces the part files of a directory.
Upserts(p) ==
    /\ "write_mode" \in DOMAIN StageConfig(procs[p].stage)
    /\ StageConfig(procs[p].stage).write_mode = "upsert_latest"

\* The part files of the partition in the output cache of the run's stage.
PartsOf(files, p, part) ==
    ExistingIn(files, StageOutput(procs[p].stage), {part})

\* The run has unlinked the old part files of the partition it is rewriting
\* and has not yet created the new one.
InWindow(p) ==
    /\ procs[p].pc = "create"
    /\ Upserts(p)

\* C23: upsert_latest is not atomic. Between the unlink of the old part
\* files and the creation of the new one, the partition a derived stage is
\* rewriting has zero part files, whatever it held before the write; once the
\* run has returned, every partition it wrote holds a part file again.
C23_UpsertWindow ==
    \A p \in DOMAIN procs :
        /\ InWindow(p) => PartsOf(fs, p, Head(procs[p].pending)) = {}
        /\ (procs[p].pc = "done" /\ Upserts(p)) =>
               \A part \in PartitionsOf(procs[p].frame) :
                   PartsOf(fs, p, part) # {}

\* A reader sees no part file in a partition that held data before the write.
C23_Witness ==
    \E p \in DOMAIN procs :
        /\ InWindow(p)
        /\ PartsOf(procs[p].origin, p, Head(procs[p].pending)) # {}
        /\ PartsOf(fs, p, Head(procs[p].pending)) = {}

----------------------------------------------------------------------------
\* Two runs over disjoint symbols against one run over all of them

\* The writes of one run, one partition after the other.
RECURSIVE write_parts(_, _, _, _, _)
write_parts(files, stage, frame, pending, now) ==
    IF pending = <<>> THEN files
    ELSE write_parts(
             create_part(unlink_existing(files, stage, Head(pending)),
                         stage, Head(pending), frame, now),
             stage, frame, Tail(pending), now)

\* The cache after one run of the stage on its own.
run_stage(files, stage, symbols, now) ==
    LET requested == requested_symbols_of(symbols)
    IN  IF stage_raises(stage, files, requested) THEN files
        ELSE Bind(stage_frame(stage, files, requested), LAMBDA frame :
                 write_parts(files, stage, frame, sorted_partitions(frame), now))

\* Both runs have returned or raised.
BothReturned ==
    /\ procs # <<>>
    /\ \A p \in DOMAIN procs : procs[p].pc \in {"done", "error"}

\* The single run the two runs are compared with: the same stage on the
\* union of their symbols, from the same cache, in the same second.
OneRun ==
    run_stage(procs[1].origin, procs[1].stage,
              procs[1].symbols \o procs[2].symbols, clock)

OutputPartitions(files, stage) ==
    {<<q[2], q[3]>> : q \in {r \in DOMAIN files : r[1] = StageOutput(stage)}}

\* Two caches hold the same rows in every partition of the stage's output.
SameOutput(x, y, stage) ==
    \A part \in OutputPartitions(x, stage) \cup OutputPartitions(y, stage) :
        SameRows(PartitionRows(x, StageOutput(stage), part),
                 PartitionRows(y, StageOutput(stage), part))

\* The rows of a frame that are bars, not calendar placeholders.
RealRows(frame) ==
    LET Real(r) == r.is_missing_bar = <<FALSE>>
    IN  SelectSeq(frame, Real)

\* Two caches hold the same bars in every partition of the stage's output.
SameRealOutput(x, y, stage) ==
    \A part \in OutputPartitions(x, stage) \cup OutputPartitions(y, stage) :
        SameRows(RealRows(PartitionRows(x, StageOutput(stage), part)),
                 RealRows(PartitionRows(y, StageOutput(stage), part)))

\* The two runs, of one of the stages, left what the single run leaves.
ParallelAgrees(stages) ==
    (BothReturned /\ procs[1].stage \in stages) =>
        SameOutput(fs, OneRun, procs[1].stage)

----------------------------------------------------------------------------
\* Warnings of the adjusted fallback

\* The dates the adjusted stream served a usable bar for.
AdjustedDates(result) ==
    {r.date : r \in Range(bars_to_frame(result.adj_bars))}

\* The primary dates of the result whose adj_close is the raw close for want
\* of an adjusted bar: the stream raised, was empty, or has no bar of the date.
FallbackDates(result) ==
    {r.date : r \in Range(result.rows)} \ AdjustedDates(result)

\* C25: a symbol's result in which at least one primary date fell back to the
\* raw close, the adjusted stream being unavailable or having no bar for that
\* date, carries at least one warning, also when other dates did match.
C25_FallbackWarned ==
    IngestDone =>
        \A i \in DOMAIN res.results :
            FallbackDates(res.results[i]) # {} => res.results[i].warnings # <<>>

----------------------------------------------------------------------------
\* The adjusted close of a row is that of its own date

\* The closes the adjusted stream served for the date.
AdjustedCloses(result, date) ==
    {r.close : r \in {q \in Range(bars_to_frame(result.adj_bars)) : q.date = date}}

\* The row takes the adjusted close of its own date, or the raw close when
\* the adjusted stream has no bar of that date.
OwnDateAdjusted(result, row) ==
    IF AdjustedCloses(result, row.date) # {}
    THEN /\ row.adj_close \in AdjustedCloses(result, row.date)
         /\ row.adjustment_factor = IF row.close = F(0) THEN F(1)
                                    ELSE RDiv(row.adj_close, row.close)
    ELSE /\ row.adj_close = row.close
         /\ row.adjustment_factor = F(1)

\* C26: for a symbol with a non-empty adjusted stream, the normalized output
\* has one row per primary bar, each with the adjusted close of its own date
\* (factor adj_close / close, 1.0 when close is 0) or, without an adjusted bar
\* of that date, the raw close and factor 1.0; the method is
\* ibkr_adjusted_last_factor iff a primary date matched; also when the
\* adjusted stream repeats a date.
C26_OwnDateAdjustedClose ==
    IngestDone =>
        \A i \in DOMAIN res.results :
            LET result == res.results[i]
            IN  bars_to_frame(result.adj_bars) # <<>> =>
                    /\ Len(result.rows) = Len(bars_to_frame(result.raw_bars))
                    /\ \A k \in DOMAIN result.rows :
                           OwnDateAdjusted(result, result.rows[k])
                    /\ result.adjustment_method = "ibkr_adjusted_last_factor"
                           <=> \E k \in DOMAIN result.rows :
                                   AdjustedCloses(result, result.rows[k].date) # {}

----------------------------------------------------------------------------
\* Deduplication comes before validation

\* The bars of the cleaned output with the key.
RealCleaned(key) ==
    {i \in DOMAIN res.steps.aligned :
        /\ <<res.steps.aligned[i].symbol, res.steps.aligned[i].date>> = key
        /\ res.steps.aligned[i].is_missing_bar = <<FALSE>>}

\* The row deduplication keeps for the key does not pass validation.
KeptIsInvalid(key) ==
    ~RowIsValid(prepare_types(<<res.steps.source[LastWithKey(key)]>>)[1])

\* An earlier source row of the key passes validation.
EarlierIsValid(key) ==
    \E i \in DOMAIN res.steps.source :
        /\ SourceKey(res.steps.source[i]) = key
        /\ i < LastWithKey(key)
        /\ RowIsValid(prepare_types(<<res.steps.source[i]>>)[1])

\* C27: the quality stage deduplicates before it validates and never falls
\* back to an earlier duplicate: a key whose kept row is invalid has no bar in
\* the cleaned output, also when an earlier duplicate was valid; and
\* aligned_rows - missing_bar_rows = source_rows - duplicate_rows_removed -
\* invalid_rows_removed.
C27_DedupBeforeValidation ==
    QualityDone =>
        /\ \A key \in SourceKeys : KeptIsInvalid(key) => RealCleaned(key) = {}
        /\ res.quality_summary.aligned_rows - res.quality_summary.missing_bar_rows
              = res.quality_summary.source_rows
                    - res.quality_summary.duplicate_rows_removed
                    - res.quality_summary.invalid_rows_removed

\* A valid row and then an invalid row of one key: the key has no bar.
C27_Witness ==
    /\ QualityDone
    /\ \E key \in SourceKeys :
          /\ KeptIsInvalid(key)
          /\ EarlierIsValid(key)
          /\ RealCleaned(key) = {}
          /\ res.quality_summary.duplicate_rows_removed = 1
          /\ res.quality_summary.invalid_rows_removed = 1

----------------------------------------------------------------------------
\* Refreshes: ingestion and quality runs, then an indicator run

\* The stage calls of one behaviour of refreshes.
MaxRefreshRuns == 5

\* The broker serves SPY on dates 1 and 2, and AAPL on date 1 or on both; it
\* has no adjusted bars.
RefreshScripts ==
    {(<<SPY, "TRADES">> :> <<Ok(<<Bar(1, 100), Bar(2, 110)>>)>>)
        @@ (<<SPY, "ADJUSTED_LAST">> :> <<Ok(<<>>)>>)
        @@ (<<AAPL, "TRADES">> :> raw)
        @@ (<<AAPL, "ADJUSTED_LAST">> :> <<Ok(<<>>)>>) :
        raw \in {<<Ok(<<Bar(1, 100)>>)>>, <<Ok(<<Bar(1, 100), Bar(2, 110)>>)>>}}

RefreshSymbolLists == {<<AAPL>>, <<SPY, AAPL>>}

RefreshIngest ==
    /\ runs < MaxRefreshRuns
    /\ \E symbols \in RefreshSymbolLists, script \in RefreshScripts :
          Ingest(symbols, DailyIngestionConfig, TRUE, script, <<0, 0>>, TRUE)

RefreshQuality ==
    /\ runs < MaxRefreshRuns
    /\ \E symbols \in RefreshSymbolLists : Normalize(symbols, NormalizationConfig)

RefreshIndicators ==
    /\ runs < MaxRefreshRuns
    /\ ComputeIndicators(<<AAPL>>, ShortIndicatorConfig)

NextRefresh == RefreshIngest \/ RefreshQuality \/ RefreshIndicators \/ BoundedTick

\* The caches are empty and the client is not connected.
InitRefresh == InitIngest /\ ~client.connected

SpecRefresh == InitRefresh /\ [][NextRefresh]_vars

\* An indicator run that wrote, right after a quality run that wrote.
IndicatorsAfterQuality ==
    /\ res.stage = "indicators" /\ res.status = "ok"
    /\ prev.stage = "quality" /\ prev.status = "ok"

\* The bars the last quality run produced for the symbols of the indicator
\* run.
FreshBars ==
    {r \in Range(prev.frame) :
        r.is_missing_bar = <<FALSE>> /\ InSymbols(r.symbol, res.symbols)}

\* The feature rows of the indicator run with the key of the row.
FeatureRowsOf(r) ==
    {f \in Range(res.frame) : f.symbol = r.symbol /\ f.date = r.date}

\* C28: after any sequence of ingestion and quality runs, the indicator run
\* builds the feature row of every (symbol, date) the most recent quality run
\* produced a bar for from a bar: the feature row has is_missing_bar false,
\* and a calendar placeholder of the key left by an earlier quality run does
\* not take its place.
C28_FreshBarWins ==
    IndicatorsAfterQuality =>
        \A r \in FreshBars :
            /\ FeatureRowsOf(r) # {}
            /\ \A f \in FeatureRowsOf(r) : f.is_missing_bar = <<FALSE>>

----------------------------------------------------------------------------
\* The two signal filters in either order

\* The last two calls were the two filters, on the same symbols, and both
\* wrote.
BothFilters(first, second) ==
    /\ prev.stage = first /\ prev.status = "ok"
    /\ res.stage = second /\ res.status = "ok"
    /\ prev.symbols = res.symbols

\* The cache after the first of the two filters run in the other order, from
\* the cache the two calls started from.
SwappedFirst == run_stage(prev.before, res.stage, res.symbols, clock)

\* The cache after both filters run in the other order.
Swapped == run_stage(SwappedFirst, prev.stage, prev.symbols, clock)

\* Both filters write in the other order as well.
SwappedWrites ==
    /\ ~stage_raises(res.stage, prev.before, res.symbols)
    /\ ~stage_raises(prev.stage, SwappedFirst, prev.symbols)

\* The rows of the signal cache of the requested symbols.
SignalRowsOf(files, symbols) ==
    {r \in UNION {Range(files[q]) : q \in {x \in DOMAIN files : x[1] = SIGNALS}} :
        InSymbols(r.symbol, symbols)}

HasRegimeColumns(r) == NotNull(r.regime_known) /\ NotNull(r.regime_on)

HasTrendColumns(r) == NotNull(r.trend_known) /\ NotNull(r.trend_eligible)


\* The rows of the frame with the key of the row.
SameKeyRows(frame, r) ==
    {q \in Range(frame) : q.symbol = r.symbol /\ q.date = r.date}

----------------------------------------------------------------------------
\* The broker session of an ingestion run

\* The last call was an ingestion run, returned or not.
IngestCalled == res.stage = "ingestion"

\* The run called client.connect(): auto_connect was set and the client was
\* not connected on entry.
CalledConnect == res.auto_connect /\ ~res.connected_on_entry

Called(name) == \E i \in DOMAIN res.client_calls : res.client_calls[i] = name

\* What holds of every run, whether client.connect() returned or raised.
SessionKept ==
    /\ Called("connect") <=> CalledConnect
    /\ res.connected_on_entry => client.connected
    /\ ~res.auto_connect => res.client_calls = <<>>

\* C30 as stated: the run calls client.disconnect() on exit iff it called
\* client.connect() itself, also when symbol processing raises; a client
\* connected on entry is still connected on return; with auto_connect false
\* the run calls neither connect nor disconnect.
C30_SessionOwnership ==
    IngestCalled =>
        /\ Called("disconnect") <=> CalledConnect
        /\ SessionKept

\* C30, with the connection refused: the run calls client.disconnect() on
\* exit iff its call of client.connect() returned, also when symbol
\* processing raises; when client.connect() raises, the run ends with that
\* error, writes nothing and does not call disconnect.
C30_SessionOwnershipOnceConnected ==
    IngestCalled =>
        /\ Called("disconnect") <=> (CalledConnect /\ res.status = "ok")
        /\ SessionKept
        /\ res.status = "error" =>
               /\ CalledConnect
               /\ res.client_calls = <<"connect">>
               /\ fs = res.before
               /\ <<res.run_id, "metadata.json">> \notin reports
               /\ ~client.connected

\* The run connected, a symbol failed and another succeeded, and the run
\* disconnected.
C30_Witness ==
    /\ IngestDone
    /\ CalledConnect
    /\ res.failures # <<>>
    /\ res.results # <<>>
    /\ res.client_calls = <<"connect", "disconnect">>
    /\ ~client.connected

====
